---------------------------- MODULE Spec2Model ----------------------------
(***************************************************************************)
(* Model of src/Examples/simple_sensor_node.c: a minimal UAVCAN node that  *)
(* publishes uavcan.equipment.air_data.TrueAirspeed and                    *)
(* uavcan.protocol.NodeStatus over SocketCAN from a single-threaded loop.  *)
(* Also modelled: the virtual CAN driver of the Libuavcan multithreading   *)
(* tutorial (uavcan_virtual_driver.hpp, specification SpecDriver) and the  *)
(* firmware loader of the firmware update tutorial (updatee.cpp,           *)
(* specification SpecUpdatee).                                             *)
(***************************************************************************)
EXTENDS Integers, Sequences, FiniteSets, TLC

(***************************************************************************)
(* Bounds of the model (not program constants).                            *)
(***************************************************************************)
\* The monotonic clock is followed up to this many microseconds; later
\* reads return this value.
MaxNow == 3700000
\* How many times compute_true_airspeed may report a failure in one run.
MaxFaults == 1
\* Largest payload_len / frame_data_len offered by an arbitrary caller.
MaxLen == 10
\* The calls of each publisher are counted up to this many.
MaxCalls == 70
\* Depth of each queue of a virtual iface and capacity of the shared pool,
\* in blocks (one block holds one frame).
QuotaPerQueue == 2
PoolBlocks == 2
\* Frames handed to the driver in one run: those the main node receives from
\* the bus and those the sub-node sends, together.
MaxFrames == 3
\* Capacity of the data field of a Read response, in bytes; Read requests
\* one loader may issue; loaders constructed in one run.
DataCapacity == 2
MaxReads == 3
MaxLoaders == 2

(***************************************************************************)
(* Program constants.                                                      *)
(***************************************************************************)
PRIORITY_HIGHEST == 0
PRIORITY_HIGH == 8
PRIORITY_MEDIUM == 16
PRIORITY_LOW == 24
PRIORITY_LOWEST == 31

HEALTH_OK == 0
HEALTH_WARNING == 1
HEALTH_ERROR == 2
HEALTH_CRITICAL == 3

MODE_OPERATIONAL == 0
MODE_INITIALIZATION == 1
MODE_MAINTENANCE == 2
MODE_SOFTWARE_UPDATE == 3
MODE_OFFLINE == 7

\* uavcan::MaxCanIfaces, and the number of virtual ifaces of the Driver.
MaxCanIfaces == 3
NumIfaces == 2

\* data_type_id of publish_node_status and of publish_true_airspeed
NodeStatusDataTypeId == 341
TrueAirspeedDataTypeId == 1020

\* sizeof(struct can_frame): what write() returns when the frame is written
CanFrameSize == 16
\* the period of the main loop, usleep(500000)
SleepUsec == 500000
\* 1.2345F and 0.0F as IEEE-754 binary32 bit patterns (compute_true_airspeed)
StubAirspeedBits == 1067320345
StubVarianceBits == 0

\* The null pointer, as a payload argument: no sequence of bytes.
NULL == << -1 >>

(***************************************************************************)
(* Bit operations on naturals below 2^31.                                  *)
(***************************************************************************)
RECURSIVE Pow2Rec(_)
Pow2Rec(n) == IF n = 0 THEN 1 ELSE 2 * Pow2Rec(n - 1)
Pow2Table == [n \in 0..30 |-> Pow2Rec(n)]
Pow2(n) == Pow2Table[n]

\* Bitwise AND and OR, four bits at a time.
RECURSIVE AndBits(_, _)
AndBits(a, b) ==
    IF a = 0 \/ b = 0 THEN 0
    ELSE (IF a % 2 = 1 /\ b % 2 = 1 THEN 1 ELSE 0) + 2 * AndBits(a \div 2, b \div 2)

RECURSIVE OrBits(_, _)
OrBits(a, b) ==
    IF a = 0 THEN b
    ELSE IF b = 0 THEN a
    ELSE (IF a % 2 = 1 \/ b % 2 = 1 THEN 1 ELSE 0) + 2 * OrBits(a \div 2, b \div 2)

AndNibble == [a \in 0..15 |-> [b \in 0..15 |-> AndBits(a, b)]]
OrNibble == [a \in 0..15 |-> [b \in 0..15 |-> OrBits(a, b)]]

RECURSIVE BitAnd(_, _)
BitAnd(a, b) ==
    IF a = 0 \/ b = 0 THEN 0
    ELSE AndNibble[a % 16][b % 16] + 16 * BitAnd(a \div 16, b \div 16)

RECURSIVE BitOr(_, _)
BitOr(a, b) ==
    IF a = 0 THEN b
    ELSE IF b = 0 THEN a
    ELSE OrNibble[a % 16][b % 16] + 16 * BitOr(a \div 16, b \div 16)

Shl(a, n) == a * Pow2(n)
Shr(a, n) == a \div Pow2(n)
U8(x) == x % 256
U16(x) == x % 65536

(***************************************************************************)
(* Platform part: can_send.  A frame is the struct can_frame handed to     *)
(* write(): can_id is extended_can_id | CAN_EFF_FLAG, kept as the flag     *)
(* (bit 31, eff) and the identifier below it (every identifier of the      *)
(* model is below 2^31).  w is what write() returns.  The result is the    *)
(* return value and the frames written (none or one).                      *)
(***************************************************************************)
\* Mutant: the length check is missing.
can_send_unchecked(extended_can_id, frame_data, frame_data_len, w) ==
    IF frame_data = NULL
    THEN [ret |-> -1, written |-> <<>>]
    ELSE [ret |-> w,
          written |-> << [eff  |-> TRUE,
                          id   |-> extended_can_id,
                          dlc  |-> frame_data_len,
                          data |-> SubSeq(frame_data, 1, frame_data_len)] >>]

\* Mutant: a failed write is retried once.
can_send_retry(extended_can_id, frame_data, frame_data_len, w) ==
    IF frame_data_len > 8 \/ frame_data = NULL
    THEN [ret |-> -1, written |-> <<>>]
    ELSE LET frame == [eff  |-> TRUE,
                       id   |-> extended_can_id,
                       dlc  |-> frame_data_len,
                       data |-> SubSeq(frame_data, 1, frame_data_len)]
         IN  [ret |-> w,
              written |-> IF w < 0 THEN << frame, frame >> ELSE << frame >>]

\* Mutant: CAN_EFF_FLAG is not set.
can_send_standard(extended_can_id, frame_data, frame_data_len, w) ==
    IF frame_data_len > 8 \/ frame_data = NULL
    THEN [ret |-> -1, written |-> <<>>]
    ELSE [ret |-> w,
          written |-> << [eff  |-> FALSE,
                          id   |-> extended_can_id,
                          dlc  |-> frame_data_len,
                          data |-> SubSeq(frame_data, 1, frame_data_len)] >>]

\* Mutant: the result of write() is reduced to 0 (whole frame) or -1.
can_send_normalised(extended_can_id, frame_data, frame_data_len, w) ==
    IF frame_data_len > 8 \/ frame_data = NULL
    THEN [ret |-> -1, written |-> <<>>]
    ELSE [ret |-> IF w = CanFrameSize THEN 0 ELSE -1,
          written |-> << [eff  |-> TRUE,
                          id   |-> extended_can_id,
                          dlc  |-> frame_data_len,
                          data |-> SubSeq(frame_data, 1, frame_data_len)] >>]

can_send(extended_can_id, frame_data, frame_data_len, w) ==
    IF frame_data_len > 8 \/ frame_data = NULL
    THEN [ret |-> -1, written |-> <<>>]
    ELSE [ret |-> w,
          written |-> << [eff  |-> TRUE,
                          id   |-> extended_can_id,
                          dlc  |-> frame_data_len,
                          data |-> SubSeq(frame_data, 1, frame_data_len)] >>]

(***************************************************************************)
(* UAVCAN transport layer: uavcan_broadcast.  payload is NULL or a         *)
(* sequence of bytes of which the first payload_len are copied.            *)
(***************************************************************************)
\* Mutant: an oversized payload is cut to the seven bytes that fit.
uavcan_broadcast_truncating(node_id, priority, data_type_id, transfer_id, payload, payload_len, w) ==
    IF payload = NULL
    THEN [ret |-> -1, written |-> <<>>]
    ELSE IF priority > 31
    THEN [ret |-> -1, written |-> <<>>]
    ELSE LET can_id == BitOr(BitOr(Shl(priority, 24), Shl(data_type_id, 8)), node_id)
             n == IF payload_len > 7 THEN 7 ELSE payload_len
             payload_with_tail_byte ==
                 SubSeq(payload, 1, n)
                     \o << BitOr(192, BitAnd(transfer_id, 31)) >>
         IN  can_send(can_id, payload_with_tail_byte, n + 1, w)

\* Mutant: the data type ID is shifted by 7, into the bits of the node ID.
uavcan_broadcast_overlap(node_id, priority, data_type_id, transfer_id, payload, payload_len, w) ==
    IF payload = NULL \/ payload_len > 7
    THEN [ret |-> -1, written |-> <<>>]
    ELSE IF priority > 31
    THEN [ret |-> -1, written |-> <<>>]
    ELSE LET can_id == BitOr(BitOr(Shl(priority, 24), Shl(data_type_id, 7)), node_id)
             payload_with_tail_byte ==
                 SubSeq(payload, 1, payload_len)
                     \o << BitOr(192, BitAnd(transfer_id, 31)) >>
         IN  can_send(can_id, payload_with_tail_byte, payload_len + 1, w)

\* Mutant: the transfer ID is not masked to 5 bits.
uavcan_broadcast_unmaskedTail(node_id, priority, data_type_id, transfer_id, payload, payload_len, w) ==
    IF payload = NULL \/ payload_len > 7
    THEN [ret |-> -1, written |-> <<>>]
    ELSE IF priority > 31
    THEN [ret |-> -1, written |-> <<>>]
    ELSE LET can_id == BitOr(BitOr(Shl(priority, 24), Shl(data_type_id, 8)), node_id)
             payload_with_tail_byte ==
                 SubSeq(payload, 1, payload_len)
                     \o << BitOr(192, transfer_id) >>
         IN  can_send(can_id, payload_with_tail_byte, payload_len + 1, w)

uavcan_broadcast(node_id, priority, data_type_id, transfer_id, payload, payload_len, w) ==
    IF payload = NULL \/ payload_len > 7
    THEN [ret |-> -1, written |-> <<>>]
    ELSE IF priority > 31
    THEN [ret |-> -1, written |-> <<>>]
    ELSE LET can_id == BitOr(BitOr(Shl(priority, 24), Shl(data_type_id, 8)), node_id)
             payload_with_tail_byte ==
                 SubSeq(payload, 1, payload_len)
                     \o << BitOr(192, BitAnd(transfer_id, 31)) >>
         IN  can_send(can_id, payload_with_tail_byte, payload_len + 1, w)

(***************************************************************************)
(* Float16 support: make_float16 on the binary32 bit pattern of its        *)
(* argument.  MulMagic is in.f *= magic.f, the multiplication by 2^-112    *)
(* of a non-negative finite binary32 value (round to nearest, ties to      *)
(* even; the result is subnormal when the exponent field is below 113).    *)
(***************************************************************************)
MulMagic(u) ==
    LET e == Shr(u, 23)
        m == u % Pow2(23)
    IN  IF e = 0 THEN 0
        ELSE IF e >= 113 THEN Shl(e - 112, 23) + m
        ELSE LET s == 113 - e
                 M == Pow2(23) + m
             IN  IF s >= 25 THEN 0
                 ELSE LET q == M \div Pow2(s)
                          r == M % Pow2(s)
                          h == Pow2(s - 1)
                      IN  IF r > h \/ (r = h /\ q % 2 = 1) THEN q + 1 ELSE q

\* Mutant: a NaN is returned without the sign of the input.
make_float16_unsignedNaN(bits, negative) ==
    LET f32infty == Shl(255, 23)
        f16infty == Shl(31, 23)
        sign16 == IF negative THEN 32768 ELSE 0
    IN  IF bits > f32infty THEN 32767
        ELSE IF bits = f32infty THEN BitOr(31744, sign16)
        ELSE LET masked == bits - (bits % 4096)
                 scaled == MulMagic(masked)
                 biased == scaled + 4096
                 clamped == IF biased > f16infty THEN f16infty ELSE biased
             IN  BitOr(U16(Shr(clamped, 13)), sign16)

\* Mutant: the result is not clamped to the half-precision infinity.
make_float16_unclamped(bits, negative) ==
    LET f32infty == Shl(255, 23)
        sign16 == IF negative THEN 32768 ELSE 0
        out ==
            IF bits >= f32infty
            THEN (IF bits > f32infty THEN 32767 ELSE 31744)
            ELSE LET masked == bits - (bits % 4096)
                     scaled == MulMagic(masked)
                     biased == scaled + 4096
                 IN  U16(Shr(biased, 13))
    IN  BitOr(out, sign16)

\* Mutant: the rounding constant is a whole unit of the result, not a half.
make_float16_roundUp(bits, negative) ==
    LET f32infty == Shl(255, 23)
        f16infty == Shl(31, 23)
        sign16 == IF negative THEN 32768 ELSE 0
        out ==
            IF bits >= f32infty
            THEN (IF bits > f32infty THEN 32767 ELSE 31744)
            ELSE LET masked == bits - (bits % 4096)
                     scaled == MulMagic(masked)
                     biased == scaled + 8192
                     clamped == IF biased > f16infty THEN f16infty ELSE biased
                 IN  U16(Shr(clamped, 13))
    IN  BitOr(out, sign16)

\* Mutant: the result is truncated, the rounding constant is not added.
make_float16_truncating(bits, negative) ==
    LET f32infty == Shl(255, 23)
        f16infty == Shl(31, 23)
        sign16 == IF negative THEN 32768 ELSE 0
        out ==
            IF bits >= f32infty
            THEN (IF bits > f32infty THEN 32767 ELSE 31744)
            ELSE LET masked == bits - (bits % 4096)
                     scaled == MulMagic(masked)
                     clamped == IF scaled > f16infty THEN f16infty ELSE scaled
                 IN  U16(Shr(clamped, 13))
    IN  BitOr(out, sign16)

make_float16(bits, negative) ==
    LET f32infty == Shl(255, 23)
        f16infty == Shl(31, 23)
        sign16 == IF negative THEN 32768 ELSE 0
        out ==
            IF bits >= f32infty
            THEN (IF bits > f32infty THEN 32767 ELSE 31744)
            ELSE LET masked == bits - (bits % 4096)
                     scaled == MulMagic(masked)
                     biased == scaled + 4096
                     clamped == IF biased > f16infty THEN f16infty ELSE biased
                 IN  U16(Shr(clamped, 13))
    IN  BitOr(out, sign16)


(***************************************************************************)
(* get_monotonic_usec and the uptime of publish_node_status.  A clock read *)
(* returns the clock, or 0 when clock_gettime fails (in a run where it     *)
(* may fail).  UptimeSec is                                                *)
(* (uint32_t)((read - startup) / 1000000ULL), the subtraction taken modulo *)
(* 2^64; it is returned as its four bytes, low byte first, because the     *)
(* wrapped difference does not fit the integers of TLC:                    *)
(* 2^64 = 18446744073709 * 10^6 + 551616 and                               *)
(* 18446744073709 mod 2^32 = 63392 * 2^16 + 46573.                         *)
(***************************************************************************)
ClockReads(c, may_fail) == IF may_fail THEN {c, 0} ELSE {c}

Bytes32(hi16, lo16) ==
    << lo16 % 256, Shr(lo16, 8) % 256, hi16 % 256, Shr(hi16, 8) % 256 >>

UptimeSec(read, startup) ==
    IF read >= startup
    THEN LET q == (read - startup) \div 1000000
         IN  Bytes32(Shr(q, 16), q % 65536)
    ELSE LET k == (551616 - (startup - read)) \div 1000000
             lo == 46573 + k
         IN  Bytes32((63392 + (lo \div 65536)) % 65536, lo % 65536)

(***************************************************************************)
(* Application logic: the payloads of the two publishers.                  *)
(***************************************************************************)
\* Mutant: the mode is shifted by 2 instead of 3.
NodeStatusPayload_modeShift2(uptime_sec, health, mode, vendor_specific_status_code) ==
    uptime_sec
        \o << U8(BitOr(Shl(health, 6), Shl(mode, 2))) >>
        \o << Shr(vendor_specific_status_code, 0) % 256,
              Shr(vendor_specific_status_code, 8) % 256 >>

NodeStatusPayload(uptime_sec, health, mode, vendor_specific_status_code) ==
    uptime_sec
        \o << U8(BitOr(Shl(health, 6), Shl(mode, 3))) >>
        \o << Shr(vendor_specific_status_code, 0) % 256,
              Shr(vendor_specific_status_code, 8) % 256 >>

\* A float argument: the sign bit and the remaining 31 bits of its binary32
\* bit pattern.
Float(negative, bits) == [negative |-> negative, bits |-> bits]

\* Mutant: the two halves are stored high byte first.
TrueAirspeedPayload_bigEndian(mean, variance) ==
    LET f16_mean     == make_float16(mean.bits, mean.negative)
        f16_variance == make_float16(variance.bits, variance.negative)
    IN  << Shr(f16_mean, 8) % 256, Shr(f16_mean, 0) % 256,
           Shr(f16_variance, 8) % 256, Shr(f16_variance, 0) % 256 >>

TrueAirspeedPayload(mean, variance) ==
    LET f16_mean     == make_float16(mean.bits, mean.negative)
        f16_variance == make_float16(variance.bits, variance.negative)
    IN  << Shr(f16_mean, 0) % 256, Shr(f16_mean, 8) % 256,
           Shr(f16_variance, 0) % 256, Shr(f16_variance, 8) % 256 >>

(***************************************************************************)
(* Inputs of a run.                                                        *)
(***************************************************************************)
\* atoi(argv[1]) for the node ID argument
NodeIdArgs == {0, 42, 128, 298}
\* what write() may return: an error, a short write, the whole frame
WriteResults == {-1, 0, CanFrameSize}
\* what compute_true_airspeed writes to its outputs, encoded
StubPayload == TrueAirspeedPayload(Float(FALSE, StubAirspeedBits),
                                   Float(FALSE, StubVarianceBits))
\* rand() truncated to uint16_t
VendorCodes == {0, 4660}
\* CLOCK_MONOTONIC when the process starts
InitialClocks == {1700000}
\* the arguments of a caller of uavcan_broadcast or can_send other than main
ApiNodeIds == {1, 42, 127}
ApiPriorities == {PRIORITY_HIGHEST, PRIORITY_MEDIUM, PRIORITY_LOW, PRIORITY_LOWEST, 32, 255}
ApiDataTypeIds == {NodeStatusDataTypeId, TrueAirspeedDataTypeId, 65535}
ApiTransferIds == {0, 31, 32, 255}
ApiCanIds == {0, 42, 536870911}
\* the arguments of a caller of publish_true_airspeed: 1.2345, 0.0, -1.0,
\* 65504.0, +infinity and 0.1
ApiFloats == { Float(FALSE, StubAirspeedBits), Float(FALSE, StubVarianceBits),
               Float(TRUE, 1065353216), Float(FALSE, 1199562752),
               Float(FALSE, 2139095040), Float(FALSE, 1036831949) }
\* the arguments of a caller of make_float16: exponent fields and mantissas
\* at the edges of the half-precision range and of its rounding
ApiExponents == {0, 1, 100, 101, 102, 103, 104, 112, 113, 114, 126, 127,
                 141, 142, 143, 254, 255}
ApiMantissas == {0, 1, 4095, 4096, 4097, 8191, 8192, 12287, 12288, 12289,
                 4194304, 8380416, 8384511, 8384512, 8388607}
\* the upper and the lower 16 bits of an uptime_sec, the health, mode and
\* status code given to the serialization of publish_node_status
ApiUptimeHalves == {0, 1, 255, 256, 65535}
ApiHealths == {HEALTH_OK, HEALTH_WARNING, HEALTH_ERROR, HEALTH_CRITICAL}
ApiModes == {MODE_OPERATIONAL, MODE_INITIALIZATION, MODE_MAINTENANCE,
             MODE_SOFTWARE_UPDATE, MODE_OFFLINE}
ApiStatusCodes == {0, 4660, 65535}
\* a caller's buffer of n bytes
Buffer(n) == [i \in 1..n |-> (37 * i + 11) % 256]

(***************************************************************************)
(* State of the program.                                                   *)
(*   argc, argv_node_id main's argc and atoi(argv[1])                       *)
(*   pc                 position in main                                   *)
(*   exit_code          the value main returned (-1 while running)         *)
(*   can_socket         the static can_socket (-1: not open)               *)
(*   uavcan_node_id     the static uavcan_node_id                          *)
(*   health             main's health                                      *)
(*   airspeed_computation_result, publication_result                       *)
(*                      main's locals of the current iteration             *)
(*   airspeed_tid       the static transfer_id of publish_true_airspeed    *)
(*   status_tid         the static transfer_id of publish_node_status      *)
(*   startup_timestamp_usec  the static of publish_node_status             *)
(*   clock              CLOCK_MONOTONIC, in microseconds                   *)
(*   clock_fails        whether clock_gettime may fail in this run         *)
(* The transport behind write():                                           *)
(*   sends              -1 when write() may return any of WriteResults;    *)
(*                      otherwise the number of write() calls so far       *)
(*                      modulo 3 of a transport failing every third call   *)
(* and, to state properties of the frames:                                 *)
(*   tx                 the write() calls of the current iteration (of the *)
(*                      latest call, for a caller other than main), each   *)
(*                      the frame and what write() returned                *)
(*   last_tid           per data type, the transfer ID in the tail byte of *)
(*                      the latest frame handed to write() (-1: none yet)  *)
(*   last_uptime        the four uptime bytes of the latest heartbeat      *)
(*                      frame handed to write() (empty: none yet)          *)
(*   calls              per data type, how many calls of its publisher     *)
(*                      main has made (counted up to MaxCalls)             *)
(*   prev_meas          the measurement send of the previous iteration:    *)
(*                      "ok", "failed" or "none" (no send)                 *)
(*   faults             how many times the computation has failed          *)
(*   call               the latest call of uavcan_broadcast or can_send by *)
(*                      a caller other than main: arguments and result     *)
(***************************************************************************)
VARIABLES argc, argv_node_id, calls, pc, exit_code, can_socket, uavcan_node_id, health,
          airspeed_computation_result, publication_result,
          airspeed_tid, status_tid, startup_timestamp_usec, clock, clock_fails,
          sends, tx, last_tid, last_uptime, prev_meas, faults, call

(***************************************************************************)
(* State of the virtual CAN driver of the multithreading tutorial          *)
(* (uavcan_virtual_driver.hpp), shared by the main thread and the          *)
(* secondary thread that runs the sub-node:                                *)
(*   rx_queue_             per virtual iface, the RX queue, oldest first   *)
(*   prioritized_tx_queue_ per virtual iface, the TX queue, next frame     *)
(*                         first                                           *)
(*   mutex_                who holds the Driver's mutex: "free", "main" or *)
(*                         "sub"                                           *)
(*   other_blocks          blocks of the shared pool held by its other     *)
(*                         users (the main node and the sub-node)          *)
(*   rx_count, tx_count    frames the main node has received from the bus  *)
(*                         and frames the sub-node has sent                *)
(*   main                  the main thread: its position in handleRxFrame  *)
(*                         or injectTxFramesInto and their locals          *)
(*   sub                   the secondary thread: its position in select,   *)
(*                         send or receive, their locals and the result of *)
(*                         the call it has returned from                   *)
(*   rx_out                per virtual iface, the output arguments of the  *)
(*                         latest call of receive that delivered a frame   *)
(*   injected              per virtual iface, the frame and the iface mask *)
(*                         of the latest call of the main node's           *)
(*                         injectTxFrame                                   *)
(***************************************************************************)
VARIABLES rx_queue_, prioritized_tx_queue_, mutex_, other_blocks, rx_count, tx_count,
          main, sub, rx_out, injected

drv_vars == << rx_queue_, prioritized_tx_queue_, mutex_, other_blocks, rx_count, tx_count,
               main, sub, rx_out, injected >>

(***************************************************************************)
(* State of the firmware update tutorial's updatee (updatee.cpp):          *)
(*   fw_loader   the LazyConstructor<FirmwareLoader>: whether a loader is  *)
(*               constructed and, if so, its source_node_id_, status_,     *)
(*               image_, whether its periodic timer runs, the offsets of   *)
(*               the pending calls of its read_client_ and the number of   *)
(*               Read requests it has issued; n tells the loaders apart    *)
(*   loaders     how many loaders have been constructed                    *)
(*   node_mode   the mode the node reports                                 *)
(*   bfu_resp    the error field of the latest BeginFirmwareUpdate         *)
(*               response ("none" before the first request)                *)
(***************************************************************************)
VARIABLES fw_loader, loaders, node_mode, bfu_resp

fw_vars == << fw_loader, loaders, node_mode, bfu_resp >>

node_vars == << argc, argv_node_id, calls, pc, exit_code, can_socket, uavcan_node_id, health,
                airspeed_computation_result, publication_result,
                airspeed_tid, status_tid, startup_timestamp_usec, clock, clock_fails,
                sends, tx, last_tid, last_uptime, prev_meas, faults, call >>

vars == << node_vars, drv_vars, fw_vars >>

DataTypes == {NodeStatusDataTypeId, TrueAirspeedDataTypeId}

\* The data type ID, the tail byte and the transfer ID carried by a frame,
\* and the health field of a NodeStatus frame.
DataTypeOf(frame) == Shr(frame.id, 8) % 65536
TailByte(frame) == frame.data[frame.dlc]
TransferIdOf(frame) == TailByte(frame) % 32
HealthOf(frame) == Shr(frame.data[5], 6)

\* The write() calls of a publisher's result, as log entries.
Writes(r) == [i \in 1..Len(r.written) |-> [frame |-> r.written[i], ret |-> r.ret]]

Latest(tids, r) ==
    IF r.written = <<>> THEN tids
    ELSE [tids EXCEPT ![DataTypeOf(r.written[1])] = TransferIdOf(r.written[1])]

\* The uptime bytes of the latest heartbeat after a call of
\* publish_node_status with result r.
LatestUptime(r) ==
    IF r.written = <<>> THEN last_uptime ELSE SubSeq(r.written[1].data, 1, 4)

\* One more call of the publisher of data type t.
Counted(t) ==
    [calls EXCEPT ![t] = IF @ < MaxCalls THEN @ + 1 ELSE MaxCalls]

\* What the next write() may return, and the transport after n calls of it.
WriteOutcomes ==
    IF sends < 0 THEN WriteResults
    ELSE IF sends = 2 THEN {-1} ELSE {CanFrameSize}

AfterWrites(n) == IF sends < 0 THEN sends ELSE (sends + n) % 3

\* The driver after construction: empty queues, nobody in a method.
Ifaces == 0 .. NumIfaces - 1

MainIdle == [pc |-> "idle", i |-> 0, frame |-> NULL, ok |-> FALSE,
             overflowed |-> FALSE, before |-> <<>>, res |-> 1]
SubIdle == [pc |-> "idle", i |-> 0, need_block |-> FALSE, read |-> {}, ret |-> 0]

\* The frame with number id that the main node receives on iface_index:
\* a CanRxFrame with its timestamps, and the flags that come with it.
RxFrame(id, iface_index) ==
    [id |-> id, iface_index |-> iface_index, ts_mono |-> 100 + id, ts_utc |-> 200 + id,
     flags |-> id % 2]

\* The output arguments of receive before any frame has been delivered.
NoRxOutput ==
    [out_frame |-> RxFrame(0, 0), out_ts_monotonic |-> 0, out_ts_utc |-> 0, out_flags |-> 0]

InitDriver ==
    /\ rx_queue_ = [i \in Ifaces |-> <<>>]
    /\ prioritized_tx_queue_ = [i \in Ifaces |-> <<>>]
    /\ mutex_ = "free"
    /\ other_blocks = 0
    /\ rx_count = 0
    /\ tx_count = 0
    /\ main = MainIdle
    /\ sub = SubIdle
    /\ rx_out = [i \in Ifaces |-> NoRxOutput]
    /\ injected = [i \in Ifaces |-> [frame |-> [id |-> 0], iface_mask |-> 0]]

\* The updatee when main enters its loop: no loader yet.
NoLoader == [constructed |-> FALSE]

InitUpdatee ==
    /\ fw_loader = NoLoader
    /\ loaders = 0
    /\ node_mode = MODE_INITIALIZATION
    /\ bfu_resp = "none"

InitProgram ==
    /\ InitDriver
    /\ InitUpdatee
    /\ pc = "main"
    /\ exit_code = -1
    /\ can_socket = -1
    /\ uavcan_node_id = 0
    /\ health = HEALTH_OK
    /\ airspeed_computation_result = 0
    /\ publication_result = 0
    /\ airspeed_tid = 0
    /\ status_tid = 0
    /\ startup_timestamp_usec = 0
    /\ clock \in InitialClocks
    /\ tx = <<>>
    /\ last_tid = [t \in DataTypes |-> -1]
    /\ last_uptime = <<>>
    /\ calls = [t \in DataTypes |-> 0]
    /\ prev_meas = "none"
    /\ faults = 0
    /\ call = [fn |-> "none"]

\* The command line of a run.
InitArgs == argc \in {2, 3} /\ argv_node_id \in NodeIdArgs

Init == InitProgram /\ InitArgs /\ sends = -1 /\ clock_fails = FALSE

\* The same program on a transport that fails every third send.
InitThird == InitProgram /\ InitArgs /\ sends = 0 /\ clock_fails = FALSE

\* The same program in a run where clock_gettime may fail.
InitClock == InitProgram /\ InitArgs /\ sends = -1 /\ clock_fails = TRUE

(***************************************************************************)
(* main, node initialization: the argument check and the node ID.          *)
(***************************************************************************)
CheckArgs ==
    /\ pc = "main"
    /\ IF argc < 3
       THEN /\ pc' = "exit"
            /\ exit_code' = 1
            /\ UNCHANGED uavcan_node_id
       ELSE /\ uavcan_node_id' = U8(argv_node_id)
            /\ IF U8(argv_node_id) < 1 \/ U8(argv_node_id) > 127
               THEN pc' = "exit" /\ exit_code' = 1
               ELSE pc' = "can_init" /\ UNCHANGED exit_code
    /\ UNCHANGED << drv_vars, fw_vars, last_uptime, argc, argv_node_id, calls, can_socket, health, airspeed_computation_result,
                    publication_result, airspeed_tid, status_tid,
                    startup_timestamp_usec, clock, clock_fails, sends, tx, last_tid,
                    prev_meas, faults, call >>

(***************************************************************************)
(* can_init and main's check of its result: socket(), ioctl() or bind()    *)
(* fails and main returns 1, or the socket is bound and kept; then the     *)
(* initialisation of health.                                               *)
(***************************************************************************)
\* Mutant: the result of can_init is not checked.
CanInit_unchecked ==
    /\ pc = "can_init"
    /\ \E sock \in {-1, 3}, ioctl_result \in {-1, 0}, bind_result \in {-1, 0} :
          IF sock < 0 \/ ioctl_result < 0 \/ bind_result < 0
          THEN UNCHANGED can_socket
          ELSE can_socket' = sock
    /\ health' = HEALTH_OK
    /\ pc' = "loop"
    /\ UNCHANGED << drv_vars, fw_vars, last_uptime, argc, argv_node_id, calls, exit_code, uavcan_node_id,
                    airspeed_computation_result,
                    publication_result, airspeed_tid, status_tid,
                    startup_timestamp_usec, clock, clock_fails, sends, tx, last_tid,
                    prev_meas, faults, call >>

CanInit ==
    /\ pc = "can_init"
    /\ \E sock \in {-1, 3}, ioctl_result \in {-1, 0}, bind_result \in {-1, 0} :
          IF sock < 0 \/ ioctl_result < 0 \/ bind_result < 0
          THEN /\ pc' = "exit"
               /\ exit_code' = 1
               /\ UNCHANGED << can_socket, health >>
          ELSE /\ can_socket' = sock
               /\ health' = HEALTH_OK
               /\ pc' = "loop"
               /\ UNCHANGED exit_code
    /\ UNCHANGED << drv_vars, fw_vars, last_uptime, argc, argv_node_id, calls, uavcan_node_id, airspeed_computation_result,
                    publication_result, airspeed_tid, status_tid,
                    startup_timestamp_usec, clock, clock_fails, sends, tx, last_tid,
                    prev_meas, faults, call >>

(***************************************************************************)
(* Main loop: compute_true_airspeed and the branch on its result.  The     *)
(* function stands for the sensor; its result is 0 or a failure.           *)
(***************************************************************************)
\* Mutant: a failed computation uses up a transfer ID.
ComputeTrueAirspeed_countsFailure ==
    /\ pc = "loop"
    /\ \E result \in {0, -1} :
          /\ result # 0 => faults < MaxFaults
          /\ airspeed_computation_result' = result
          /\ IF result = 0
             THEN /\ pc' = "publish_true_airspeed"
                  /\ UNCHANGED << health, faults, airspeed_tid >>
             ELSE /\ health' = HEALTH_ERROR
                  /\ airspeed_tid' = U8(airspeed_tid + 1)
                  /\ faults' = faults + 1
                  /\ pc' = "publish_node_status"
    /\ UNCHANGED << drv_vars, fw_vars, last_uptime, argc, argv_node_id, calls, exit_code, can_socket, uavcan_node_id, publication_result,
                    status_tid, startup_timestamp_usec, clock, clock_fails,
                    sends, tx, last_tid, prev_meas, call >>

ComputeTrueAirspeed ==
    /\ pc = "loop"
    /\ \E result \in {0, -1} :
          /\ result # 0 => faults < MaxFaults
          /\ airspeed_computation_result' = result
          /\ IF result = 0
             THEN /\ pc' = "publish_true_airspeed"
                  /\ UNCHANGED << health, faults >>
             ELSE /\ health' = HEALTH_ERROR
                  /\ faults' = faults + 1
                  /\ pc' = "publish_node_status"
    /\ UNCHANGED << drv_vars, fw_vars, last_uptime, argc, argv_node_id, calls, exit_code, can_socket, uavcan_node_id, publication_result,
                    airspeed_tid, status_tid, startup_timestamp_usec, clock, clock_fails,
                    sends, tx, last_tid, prev_meas, call >>

(***************************************************************************)
(* The static transfer_id of a publisher, a uint8_t, incremented.          *)
(***************************************************************************)
\* Mutant: the counter wraps one value early.
NextTransferId_wrap255(transfer_id) == (transfer_id + 1) % 255

NextTransferId(transfer_id) == U8(transfer_id + 1)

(***************************************************************************)
(* publish_true_airspeed: the new value of its static transfer_id and the  *)
(* result of uavcan_broadcast, given what write() returns.                 *)
(***************************************************************************)
\* Mutant: the counter advances only when the send succeeded.
publish_true_airspeed_countSuccess(payload, w) ==
    LET transfer_id == NextTransferId(airspeed_tid)
    IN  [transfer_id |-> IF w < 0 THEN airspeed_tid ELSE transfer_id,
         r |-> uavcan_broadcast(uavcan_node_id, PRIORITY_MEDIUM,
                                TrueAirspeedDataTypeId, transfer_id,
                                payload, 4, w)]

\* Mutant: the counter is read and then incremented, as in the heartbeat.
publish_true_airspeed_postIncrement(payload, w) ==
    LET transfer_id == NextTransferId(airspeed_tid)
    IN  [transfer_id |-> transfer_id,
         r |-> uavcan_broadcast(uavcan_node_id, PRIORITY_MEDIUM,
                                TrueAirspeedDataTypeId, airspeed_tid,
                                payload, 4, w)]

publish_true_airspeed(payload, w) ==
    LET transfer_id == NextTransferId(airspeed_tid)
    IN  [transfer_id |-> transfer_id,
         r |-> uavcan_broadcast(uavcan_node_id, PRIORITY_MEDIUM,
                                TrueAirspeedDataTypeId, transfer_id,
                                payload, 4, w)]

\* health = (publication_result < 0) ? HEALTH_ERROR : HEALTH_OK
\* Mutant: a past failure is latched.
HealthAfter_latched(result) == IF result < 0 THEN HEALTH_ERROR ELSE health

\* Mutant: a failure is reported as Warning.
HealthAfter_warning(result) == IF result < 0 THEN HEALTH_WARNING ELSE HEALTH_OK

\* Mutant: a short write counts as a failure.
HealthAfter_shortWrite(result) ==
    IF result < CanFrameSize THEN HEALTH_ERROR ELSE HEALTH_OK

HealthAfter(result) == IF result < 0 THEN HEALTH_ERROR ELSE HEALTH_OK

(***************************************************************************)
(* main: the call of publish_true_airspeed and the assignment of health.   *)
(***************************************************************************)
PublishTrueAirspeed ==
    /\ pc = "publish_true_airspeed"
    /\ \E w \in WriteOutcomes :
          \E c \in {publish_true_airspeed(StubPayload, w)} :
              /\ airspeed_tid' = c.transfer_id
              /\ publication_result' = c.r.ret
              /\ health' = HealthAfter(c.r.ret)
              /\ tx' = tx \o Writes(c.r)
              /\ last_tid' = Latest(last_tid, c.r)
              /\ sends' = AfterWrites(Len(c.r.written))
    /\ pc' = "publish_node_status"
    /\ calls' = Counted(TrueAirspeedDataTypeId)
    /\ UNCHANGED << drv_vars, fw_vars, last_uptime, argc, argv_node_id, exit_code, can_socket, uavcan_node_id,
                    airspeed_computation_result, status_tid,
                    startup_timestamp_usec, clock, clock_fails, prev_meas, faults, call >>

(***************************************************************************)
(* publish_node_status: the new values of its statics and the result of    *)
(* uavcan_broadcast, given the two clock reads and what write() returns.   *)
(***************************************************************************)
\* Mutant: the uptime is counted from the origin of the clock.
publish_node_status_sinceBoot(h, mode, vendor_specific_status_code, first, second, w) ==
    LET startup == IF startup_timestamp_usec = 0
                   THEN first ELSE startup_timestamp_usec
    IN  [startup |-> startup,
         transfer_id |-> NextTransferId(status_tid),
         r |-> uavcan_broadcast(uavcan_node_id, PRIORITY_LOW,
                                NodeStatusDataTypeId, status_tid,
                                NodeStatusPayload(UptimeSec(second, 0),
                                                  h, mode,
                                                  vendor_specific_status_code),
                                7, w)]

\* Mutant: the tail byte is counted in the payload length.
publish_node_status_oversized(h, mode, vendor_specific_status_code, first, second, w) ==
    LET startup == IF startup_timestamp_usec = 0
                   THEN first ELSE startup_timestamp_usec
    IN  [startup |-> startup,
         transfer_id |-> NextTransferId(status_tid),
         r |-> uavcan_broadcast(uavcan_node_id, PRIORITY_LOW,
                                NodeStatusDataTypeId, status_tid,
                                NodeStatusPayload(UptimeSec(second, startup),
                                                  h, mode,
                                                  vendor_specific_status_code),
                                8, w)]

publish_node_status(h, mode, vendor_specific_status_code, first, second, w) ==
    LET startup == IF startup_timestamp_usec = 0
                   THEN first ELSE startup_timestamp_usec
    IN  [startup |-> startup,
         transfer_id |-> NextTransferId(status_tid),
         r |-> uavcan_broadcast(uavcan_node_id, PRIORITY_LOW,
                                NodeStatusDataTypeId, status_tid,
                                NodeStatusPayload(UptimeSec(second, startup),
                                                  h, mode,
                                                  vendor_specific_status_code),
                                7, w)]

(***************************************************************************)
(* main: rand() and the call of publish_node_status, its result discarded. *)
(***************************************************************************)
\* Mutant: the heartbeat is sent at the top of the loop body.
PublishNodeStatus_first ==
    /\ pc = "loop"
    /\ tx = <<>>
    /\ \E vendor_specific_status_code \in VendorCodes,
          first \in ClockReads(clock, clock_fails),
          second \in ClockReads(clock, clock_fails),
          w \in WriteOutcomes :
          \E c \in {publish_node_status(health, MODE_OPERATIONAL,
                                       vendor_specific_status_code,
                                       first, second, w)} :
              /\ startup_timestamp_usec' = c.startup
              /\ status_tid' = c.transfer_id
              /\ tx' = tx \o Writes(c.r)
              /\ last_tid' = Latest(last_tid, c.r)
              /\ last_uptime' = LatestUptime(c.r)
              /\ sends' = AfterWrites(Len(c.r.written))
    /\ calls' = Counted(NodeStatusDataTypeId)
    /\ UNCHANGED << drv_vars, fw_vars, argc, argv_node_id, pc, exit_code, can_socket, uavcan_node_id, health,
                    airspeed_computation_result, publication_result,
                    airspeed_tid, clock, clock_fails, prev_meas, faults, call >>

\* Mutant: a failed heartbeat send is fed back into health.
PublishNodeStatus_feedback ==
    /\ pc = "publish_node_status"
    /\ \E vendor_specific_status_code \in VendorCodes,
          first \in ClockReads(clock, clock_fails),
          second \in ClockReads(clock, clock_fails),
          w \in WriteOutcomes :
          \E c \in {publish_node_status(health, MODE_OPERATIONAL,
                                       vendor_specific_status_code,
                                       first, second, w)} :
              /\ startup_timestamp_usec' = c.startup
              /\ status_tid' = c.transfer_id
              /\ health' = IF c.r.ret < 0 THEN HEALTH_ERROR ELSE health
              /\ tx' = tx \o Writes(c.r)
              /\ last_tid' = Latest(last_tid, c.r)
              /\ last_uptime' = LatestUptime(c.r)
              /\ sends' = AfterWrites(Len(c.r.written))
    /\ pc' = "usleep"
    /\ calls' = Counted(NodeStatusDataTypeId)
    /\ UNCHANGED << drv_vars, fw_vars, argc, argv_node_id, exit_code, can_socket, uavcan_node_id,
                    airspeed_computation_result, publication_result,
                    airspeed_tid, clock, clock_fails, prev_meas, faults, call >>

\* Mutant: the node reports Maintenance while its health is Error.
PublishNodeStatus_maintenance ==
    /\ pc = "publish_node_status"
    /\ \E vendor_specific_status_code \in VendorCodes,
          first \in ClockReads(clock, clock_fails),
          second \in ClockReads(clock, clock_fails),
          w \in WriteOutcomes :
          \E c \in {publish_node_status(health,
                                       IF health = HEALTH_ERROR
                                       THEN MODE_MAINTENANCE
                                       ELSE MODE_OPERATIONAL,
                                       vendor_specific_status_code,
                                       first, second, w)} :
              /\ startup_timestamp_usec' = c.startup
              /\ status_tid' = c.transfer_id
              /\ tx' = tx \o Writes(c.r)
              /\ last_tid' = Latest(last_tid, c.r)
              /\ last_uptime' = LatestUptime(c.r)
              /\ sends' = AfterWrites(Len(c.r.written))
    /\ pc' = "usleep"
    /\ calls' = Counted(NodeStatusDataTypeId)
    /\ UNCHANGED << drv_vars, fw_vars, argc, argv_node_id, exit_code, can_socket, uavcan_node_id, health,
                    airspeed_computation_result, publication_result,
                    airspeed_tid, clock, clock_fails, prev_meas, faults, call >>

PublishNodeStatus ==
    /\ pc = "publish_node_status"
    /\ \E vendor_specific_status_code \in VendorCodes,
          first \in ClockReads(clock, clock_fails),
          second \in ClockReads(clock, clock_fails),
          w \in WriteOutcomes :
          \E c \in {publish_node_status(health, MODE_OPERATIONAL,
                                       vendor_specific_status_code,
                                       first, second, w)} :
              /\ startup_timestamp_usec' = c.startup
              /\ status_tid' = c.transfer_id
              /\ tx' = tx \o Writes(c.r)
              /\ last_tid' = Latest(last_tid, c.r)
              /\ last_uptime' = LatestUptime(c.r)
              /\ sends' = AfterWrites(Len(c.r.written))
    /\ pc' = "usleep"
    /\ calls' = Counted(NodeStatusDataTypeId)
    /\ UNCHANGED << drv_vars, fw_vars, argc, argv_node_id, exit_code, can_socket, uavcan_node_id, health,
                    airspeed_computation_result, publication_result,
                    airspeed_tid, clock, clock_fails, prev_meas, faults, call >>

(***************************************************************************)
(* usleep(500000), the end of an iteration.                                *)
(***************************************************************************)
\* Mutant: the loop is left after an iteration that ended in Error.
Usleep_stopOnError ==
    /\ pc = "usleep"
    /\ clock' = IF clock + SleepUsec > MaxNow THEN MaxNow ELSE clock + SleepUsec
    /\ pc' = IF health = HEALTH_ERROR THEN "exit" ELSE "loop"
    /\ exit_code' = IF health = HEALTH_ERROR THEN 1 ELSE exit_code
    /\ prev_meas' = IF airspeed_computation_result # 0 THEN "none"
                    ELSE IF publication_result < 0 THEN "failed" ELSE "ok"
    /\ tx' = <<>>
    /\ airspeed_computation_result' = 0
    /\ publication_result' = 0
    /\ UNCHANGED << drv_vars, fw_vars, last_uptime, argc, argv_node_id, calls, can_socket, uavcan_node_id, health,
                    airspeed_tid, status_tid, startup_timestamp_usec,
                    clock_fails, sends, last_tid, faults, call >>

Usleep ==
    /\ pc = "usleep"
    /\ clock' = IF clock + SleepUsec > MaxNow THEN MaxNow ELSE clock + SleepUsec
    /\ pc' = "loop"
    /\ prev_meas' = IF airspeed_computation_result # 0 THEN "none"
                    ELSE IF publication_result < 0 THEN "failed" ELSE "ok"
    /\ tx' = <<>>
    /\ airspeed_computation_result' = 0
    /\ publication_result' = 0
    /\ UNCHANGED << drv_vars, fw_vars, last_uptime, argc, argv_node_id, calls, exit_code, can_socket, uavcan_node_id, health,
                    airspeed_tid, status_tid, startup_timestamp_usec,
                    clock_fails, sends, last_tid, faults, call >>

Next ==
    \/ CheckArgs
    \/ CanInit
    \/ ComputeTrueAirspeed
    \/ PublishTrueAirspeed
    \/ PublishNodeStatus
    \/ Usleep

Spec == Init /\ [][Next]_vars

\* The scheduling of a single thread: a step that can be taken is taken.
FairSpec == Spec /\ WF_vars(Next)

\* The program on the transport that fails every third send.
SpecThird == InitThird /\ [][Next]_vars

\* The program with a clock whose reads may fail.
SpecClock == InitClock /\ [][Next]_vars


(***************************************************************************)
(* The two transport functions called by an arbitrary caller: any          *)
(* priority, data type, transfer ID and length, a buffer of payload_len    *)
(* bytes or a null pointer.                                                *)
(***************************************************************************)
InitApi ==
    /\ InitProgram
    /\ argc = 3 /\ argv_node_id = 42
    /\ sends = -1
    /\ clock_fails = FALSE

StartCaller ==
    /\ pc = "main"
    /\ \E id \in ApiNodeIds : uavcan_node_id' = id
    /\ can_socket' = 3
    /\ pc' = "caller"
    /\ UNCHANGED << drv_vars, fw_vars, last_uptime, argc, argv_node_id, calls, exit_code, health, airspeed_computation_result,
                    publication_result, airspeed_tid, status_tid,
                    startup_timestamp_usec, clock, clock_fails, sends, tx, last_tid,
                    prev_meas, faults, call >>

BroadcastCall ==
    /\ pc = "caller"
    /\ \E priority \in ApiPriorities, data_type_id \in ApiDataTypeIds,
          transfer_id \in ApiTransferIds, payload_len \in 0..MaxLen,
          is_null \in BOOLEAN, w \in WriteOutcomes :
          \E payload \in {IF is_null THEN NULL ELSE Buffer(payload_len)} :
          \E r \in {uavcan_broadcast(uavcan_node_id, priority, data_type_id,
                                     transfer_id, payload, payload_len, w)} :
              /\ call' = [fn |-> "uavcan_broadcast", priority |-> priority,
                          data_type_id |-> data_type_id,
                          transfer_id |-> transfer_id, payload |-> payload,
                          payload_len |-> payload_len, w |-> w, ret |-> r.ret]
              /\ tx' = Writes(r)
              /\ sends' = AfterWrites(Len(r.written))
    /\ pc' = "returned"
    /\ UNCHANGED << drv_vars, fw_vars, last_uptime, argc, argv_node_id, calls, exit_code, can_socket, uavcan_node_id, health,
                    airspeed_computation_result, publication_result,
                    airspeed_tid, status_tid, startup_timestamp_usec, clock, clock_fails,
                    last_tid, prev_meas, faults >>

CanSendCall ==
    /\ pc = "caller"
    /\ \E extended_can_id \in ApiCanIds, frame_data_len \in 0..MaxLen,
          is_null \in BOOLEAN, w \in WriteOutcomes :
          \E frame_data \in {IF is_null THEN NULL ELSE Buffer(frame_data_len)} :
          \E r \in {can_send(extended_can_id, frame_data, frame_data_len, w)} :
              /\ call' = [fn |-> "can_send", extended_can_id |-> extended_can_id,
                          frame_data |-> frame_data,
                          frame_data_len |-> frame_data_len, w |-> w,
                          ret |-> r.ret]
              /\ tx' = Writes(r)
              /\ sends' = AfterWrites(Len(r.written))
    /\ pc' = "returned"
    /\ UNCHANGED << drv_vars, fw_vars, last_uptime, argc, argv_node_id, calls, exit_code, can_socket, uavcan_node_id, health,
                    airspeed_computation_result, publication_result,
                    airspeed_tid, status_tid, startup_timestamp_usec, clock, clock_fails,
                    last_tid, prev_meas, faults >>

\* The caller goes on to its next call.
Return ==
    /\ pc = "returned"
    /\ pc' = "caller"
    /\ call' = [fn |-> "none"]
    /\ tx' = <<>>
    /\ UNCHANGED << drv_vars, fw_vars, last_uptime, argc, argv_node_id, calls, exit_code, can_socket, uavcan_node_id, health,
                    airspeed_computation_result, publication_result,
                    airspeed_tid, status_tid, startup_timestamp_usec, clock, clock_fails,
                    sends, last_tid, prev_meas, faults >>

NextApi ==
    \/ StartCaller
    \/ BroadcastCall
    \/ CanSendCall
    \/ Return

SpecApi == InitApi /\ [][NextApi]_vars

(***************************************************************************)
(* The serialization of publish_node_status applied to any uptime, health, *)
(* mode and status code, and publish_true_airspeed called with any of      *)
(* ApiFloats, by a caller other than main.                                 *)
(***************************************************************************)
NodeStatusPayloadCall ==
    /\ pc = "caller"
    /\ \E hi16 \in ApiUptimeHalves, lo16 \in ApiUptimeHalves,
          h \in ApiHealths, mode \in ApiModes,
          vendor_specific_status_code \in ApiStatusCodes :
          call' = [fn |-> "NodeStatusPayload",
                   uptime_hi |-> hi16, uptime_lo |-> lo16,
                   health |-> h, mode |-> mode,
                   vendor_specific_status_code |-> vendor_specific_status_code,
                   payload |-> NodeStatusPayload(Bytes32(hi16, lo16), h, mode,
                                                 vendor_specific_status_code)]
    /\ pc' = "returned"
    /\ UNCHANGED << drv_vars, fw_vars, last_uptime, argc, argv_node_id, calls, exit_code, can_socket, uavcan_node_id,
                    health, airspeed_computation_result, publication_result,
                    airspeed_tid, status_tid, startup_timestamp_usec, clock,
                    clock_fails, sends, tx, last_tid, prev_meas, faults >>

PublishTrueAirspeedCall ==
    /\ pc = "caller"
    /\ \E mean \in ApiFloats, variance \in ApiFloats, w \in WriteOutcomes :
          \E c \in {publish_true_airspeed(TrueAirspeedPayload(mean, variance), w)} :
              /\ airspeed_tid' = c.transfer_id
              /\ call' = [fn |-> "publish_true_airspeed", mean |-> mean,
                          variance |-> variance, ret |-> c.r.ret]
              /\ tx' = Writes(c.r)
              /\ sends' = AfterWrites(Len(c.r.written))
    /\ pc' = "returned"
    /\ UNCHANGED << drv_vars, fw_vars, last_uptime, argc, argv_node_id, calls, exit_code, can_socket, uavcan_node_id,
                    health, airspeed_computation_result, publication_result,
                    status_tid, startup_timestamp_usec, clock, clock_fails,
                    last_tid, prev_meas, faults >>

NextCodec ==
    \/ StartCaller
    \/ NodeStatusPayloadCall
    \/ PublishTrueAirspeedCall
    \/ Return

SpecCodec == InitApi /\ [][NextCodec]_vars

(***************************************************************************)
(* make_float16 called with any of the bit patterns above, of either sign. *)
(***************************************************************************)
MakeFloat16Call ==
    /\ pc = "caller"
    /\ \E e \in ApiExponents, m \in ApiMantissas, negative \in BOOLEAN :
          call' = [fn |-> "make_float16",
                   value |-> Float(negative, Shl(e, 23) + m),
                   out |-> make_float16(Shl(e, 23) + m, negative)]
    /\ pc' = "returned"
    /\ UNCHANGED << drv_vars, fw_vars, last_uptime, argc, argv_node_id, calls, exit_code, can_socket, uavcan_node_id,
                    health, airspeed_computation_result, publication_result,
                    airspeed_tid, status_tid, startup_timestamp_usec, clock,
                    clock_fails, sends, tx, last_tid, prev_meas, faults >>

NextFloat16 ==
    \/ StartCaller
    \/ MakeFloat16Call
    \/ Return

SpecFloat16 == InitApi /\ [][NextFloat16]_vars


(***************************************************************************)
(* uavcan_virtual_driver.hpp: the virtual CAN driver through which a       *)
(* sub-node in a secondary thread shares the main node's CAN interfaces.   *)
(* Every method that takes the Driver's mutex is two or more steps: the    *)
(* lock_guard's construction, then the body, after which the guard         *)
(* releases the mutex.                                                     *)
(***************************************************************************)
\* Blocks of the shared pool held by the queues of the first n ifaces, and
\* the blocks nobody holds.
RECURSIVE QueuedBlocks(_)
QueuedBlocks(n) ==
    IF n = 0 THEN 0
    ELSE Len(rx_queue_[n - 1]) + Len(prioritized_tx_queue_[n - 1]) + QueuedBlocks(n - 1)

FreeBlocks == PoolBlocks - other_blocks - QueuedBlocks(NumIfaces)

\* LimitedPoolAllocator::allocate of a queue that holds `used` blocks: a
\* block is handed out when the queue is below its quota and the shared
\* pool has one left.
allocate(used) == used < QuotaPerQueue /\ FreeBlocks > 0

\* Queue<T>: tryEmplace appends at the end of the list, or fails when no
\* block can be allocated; pop removes the first element.
tryEmplace_atFront(list_, item) ==
    IF allocate(Len(list_))
    THEN [ok |-> TRUE, list_ |-> << item >> \o list_]
    ELSE [ok |-> FALSE, list_ |-> list_]

tryEmplace(list_, item) ==
    IF allocate(Len(list_))
    THEN [ok |-> TRUE, list_ |-> Append(list_, item)]
    ELSE [ok |-> FALSE, list_ |-> list_]

\* peek is the first element (NULL when the queue is empty).
peek(list_) == IF list_ = <<>> THEN NULL ELSE Head(list_)

\* Mutant: pop removes the last element.
pop_back(list_) == IF list_ = <<>> THEN list_ ELSE SubSeq(list_, 1, Len(list_) - 1)

pop(list_) == IF list_ = <<>> THEN list_ ELSE Tail(list_)

\* CanTxQueue::push with frames of one priority: the frame is queued behind
\* the others when a block can be allocated, and dropped otherwise.
push(queue, frame) == IF allocate(Len(queue)) THEN Append(queue, frame) ELSE queue

\* std::lock_guard<std::mutex> lock(mutex_) by thread t, and its release at
\* the end of the method.
lock_guard_noWait(t) == mutex_' = t

lock_guard(t) == mutex_ = "free" /\ mutex_' = t

unlock == mutex_' = "free"

\* The other users of the shared pool take and return blocks at any time.
OtherAllocate ==
    /\ FreeBlocks > 0
    /\ other_blocks' = other_blocks + 1
    /\ UNCHANGED << node_vars, fw_vars, rx_out, injected, rx_queue_, prioritized_tx_queue_, mutex_, rx_count, tx_count,
                    main, sub >>

OtherDeallocate ==
    /\ other_blocks > 0
    /\ other_blocks' = other_blocks - 1
    /\ UNCHANGED << node_vars, fw_vars, rx_out, injected, rx_queue_, prioritized_tx_queue_, mutex_, rx_count, tx_count,
                    main, sub >>

(***************************************************************************)
(* Main thread: Driver::handleRxFrame and Iface::addRxFrame.               *)
(***************************************************************************)
\* The main node hands over a frame it received on iface_index; a frame of
\* an iface the driver does not implement is ignored.
HandleRxFrame ==
    /\ main.pc = "idle"
    /\ rx_count + tx_count < MaxFrames
    /\ rx_count' = rx_count + 1
    /\ \E iface_index \in 0 .. MaxCanIfaces - 1 :
         main' = IF iface_index < NumIfaces
                 THEN [MainIdle EXCEPT !.pc = "addRxFrame_lock",
                                       !.i = iface_index,
                                       !.frame = RxFrame(rx_count + 1, iface_index)]
                 ELSE main
    /\ UNCHANGED << node_vars, fw_vars, rx_out, injected, rx_queue_, prioritized_tx_queue_, mutex_, other_blocks,
                    tx_count, sub >>

AddRxFrameLock ==
    /\ main.pc = "addRxFrame_lock"
    /\ lock_guard("main")
    /\ main' = [main EXCEPT !.pc = "addRxFrame_tryEmplace", !.before = rx_queue_[main.i]]
    /\ UNCHANGED << node_vars, fw_vars, rx_out, injected, rx_queue_, prioritized_tx_queue_, other_blocks, rx_count,
                    tx_count, sub >>

\* if (!rx_queue_.tryEmplace(frame, flags) && !rx_queue_.isEmpty())
AddRxFrameTryEmplace ==
    /\ main.pc = "addRxFrame_tryEmplace"
    /\ \E r \in {tryEmplace(rx_queue_[main.i], main.frame)} :
         /\ rx_queue_' = [rx_queue_ EXCEPT ![main.i] = r.list_]
         /\ main' = [main EXCEPT !.ok = r.ok,
                                 !.overflowed = ~r.ok,
                                 !.pc = IF ~r.ok /\ rx_queue_[main.i] # <<>>
                                        THEN "addRxFrame_pop"
                                        ELSE "addRxFrame_unlock"]
    /\ UNCHANGED << node_vars, fw_vars, rx_out, injected, prioritized_tx_queue_, mutex_, other_blocks, rx_count,
                    tx_count, sub >>

\* rx_queue_.pop();
AddRxFramePop ==
    /\ main.pc = "addRxFrame_pop"
    /\ rx_queue_' = [rx_queue_ EXCEPT ![main.i] = pop(@)]
    /\ main' = [main EXCEPT !.pc = "addRxFrame_retry"]
    /\ UNCHANGED << node_vars, fw_vars, rx_out, injected, prioritized_tx_queue_, mutex_, other_blocks, rx_count,
                    tx_count, sub >>

\* (void)rx_queue_.tryEmplace(frame, flags);
AddRxFrameRetry ==
    /\ main.pc = "addRxFrame_retry"
    /\ \E r \in {tryEmplace(rx_queue_[main.i], main.frame)} :
         /\ rx_queue_' = [rx_queue_ EXCEPT ![main.i] = r.list_]
         /\ main' = [main EXCEPT !.ok = r.ok, !.pc = "addRxFrame_unlock"]
    /\ UNCHANGED << node_vars, fw_vars, rx_out, injected, prioritized_tx_queue_, mutex_, other_blocks, rx_count,
                    tx_count, sub >>

AddRxFrameUnlock ==
    /\ main.pc = "addRxFrame_unlock"
    /\ unlock
    /\ main' = [MainIdle EXCEPT !.pc = "signal"]
    /\ UNCHANGED << node_vars, fw_vars, rx_out, injected, rx_queue_, prioritized_tx_queue_, other_blocks, rx_count,
                    tx_count, sub >>

\* for (unsigned i = 0; i < num_ifaces_; i++) over the rebuilt masks, and
\* the return of select: from the head of the loop, in state s of the
\* thread, to the next call of hasDataInRxQueue or to the return.  The
\* thread touches nothing shared in between.
SelectCollect(s) ==
    IF s.i < NumIfaces
    THEN [s EXCEPT !.pc = "collect_hasDataInRxQueue_lock"]
    ELSE SubIdle

\* The secondary thread has left the first loop or Event::waitFor and goes
\* on to rebuild the masks.
Collecting(s) == SelectCollect([s EXCEPT !.pc = "select_collect", !.i = 0, !.read = {}])

\* event_.signal(): notify_all wakes the secondary thread if it is waiting
\* in Event::waitFor at this moment, and is forgotten otherwise.
EventSignal ==
    /\ main.pc = "signal"
    /\ main' = MainIdle
    /\ sub' = IF sub.pc = "waitFor" THEN Collecting(sub) ELSE sub
    /\ UNCHANGED << node_vars, fw_vars, rx_out, injected, rx_queue_, prioritized_tx_queue_, mutex_, other_blocks,
                    rx_count, tx_count >>

(***************************************************************************)
(* Main thread: Driver::injectTxFramesInto and Iface::flushTxQueueTo.      *)
(***************************************************************************)
InjectResults == {-1, 0, 1}

InjectTxFramesInto ==
    /\ main.pc = "idle"
    /\ main' = [MainIdle EXCEPT !.pc = "flushTxQueueTo_lock"]
    /\ UNCHANGED << node_vars, fw_vars, rx_out, injected, rx_queue_, prioritized_tx_queue_, mutex_, other_blocks,
                    rx_count, tx_count, sub >>

FlushTxQueueToLock ==
    /\ main.pc = "flushTxQueueTo_lock"
    /\ lock_guard("main")
    /\ main' = [main EXCEPT !.pc = "flushTxQueueTo_loop"]
    /\ UNCHANGED << node_vars, fw_vars, rx_out, injected, rx_queue_, prioritized_tx_queue_, other_blocks, rx_count,
                    tx_count, sub >>

\* Mutant: a frame whose injection failed stays in the queue.
FlushTxQueueToLoop_keepFailed ==
    /\ main.pc = "flushTxQueueTo_loop"
    /\ IF prioritized_tx_queue_[main.i] = <<>>
       THEN /\ main' = [main EXCEPT !.pc = "flushTxQueueTo_unlock"]
            /\ UNCHANGED << prioritized_tx_queue_, injected >>
       ELSE \E res \in InjectResults :
              /\ injected' = [injected EXCEPT ![main.i] =
                               [frame |-> Head(prioritized_tx_queue_[main.i]),
                                iface_mask |-> Pow2(main.i)]]
              /\ prioritized_tx_queue_' =
                    IF res <= 0 THEN prioritized_tx_queue_
                    ELSE [prioritized_tx_queue_ EXCEPT ![main.i] = Tail(@)]
              /\ main' = [main EXCEPT !.res = res,
                                      !.pc = IF res <= 0 THEN "flushTxQueueTo_unlock"
                                             ELSE "flushTxQueueTo_loop"]
    /\ UNCHANGED << node_vars, fw_vars, rx_out, rx_queue_, mutex_, other_blocks, rx_count,
                    tx_count, sub >>

\* One round of the loop: the first frame is injected into the main node
\* and removed from the queue whatever the result; a non-positive result
\* ends the loop.
FlushTxQueueToLoop ==
    /\ main.pc = "flushTxQueueTo_loop"
    /\ IF prioritized_tx_queue_[main.i] = <<>>
       THEN /\ main' = [main EXCEPT !.pc = "flushTxQueueTo_unlock"]
            /\ UNCHANGED << prioritized_tx_queue_, injected >>
       ELSE \E res \in InjectResults :
              /\ injected' = [injected EXCEPT ![main.i] =
                               [frame |-> Head(prioritized_tx_queue_[main.i]),
                                iface_mask |-> Pow2(main.i)]]
              /\ prioritized_tx_queue_' = [prioritized_tx_queue_ EXCEPT ![main.i] = Tail(@)]
              /\ main' = [main EXCEPT !.res = res,
                                      !.pc = IF res <= 0 THEN "flushTxQueueTo_unlock"
                                             ELSE "flushTxQueueTo_loop"]
    /\ UNCHANGED << node_vars, fw_vars, rx_out, rx_queue_, mutex_, other_blocks, rx_count,
                    tx_count, sub >>

FlushTxQueueToUnlock ==
    /\ main.pc = "flushTxQueueTo_unlock"
    /\ unlock
    /\ main' = IF main.i + 1 < NumIfaces
               THEN [main EXCEPT !.pc = "flushTxQueueTo_lock", !.i = main.i + 1, !.res = 1]
               ELSE [MainIdle EXCEPT !.pc = "signal"]
    /\ UNCHANGED << node_vars, fw_vars, rx_out, injected, rx_queue_, prioritized_tx_queue_, other_blocks, rx_count,
                    tx_count, sub >>

(***************************************************************************)
(* Secondary thread: Driver::select with Iface::hasDataInRxQueue and       *)
(* Event::waitFor.                                                         *)
(***************************************************************************)
\* for (unsigned i = 0; need_block && (i < num_ifaces_); i++), and after
\* the loop the decision to wait: from the head of the loop, in state s of
\* the thread, to the next call of hasDataInRxQueue, to the call of waitFor
\* or to the second loop.  The thread touches nothing shared in between.
RECURSIVE SelectScan(_)
SelectScan(s) ==
    IF s.need_block /\ s.i < NumIfaces
    THEN IF s.i \in s.read
         THEN [s EXCEPT !.pc = "scan_hasDataInRxQueue_lock"]
         ELSE SelectScan([s EXCEPT !.i = s.i + 1])
    ELSE IF s.need_block
         THEN [s EXCEPT !.pc = "waitFor_call"]
         ELSE Collecting(s)

\* The sub-node calls select with a read mask that requests every iface or
\* none, and with or without a write bit:
\* bool need_block = (inout_masks.write == 0);
Select ==
    /\ sub.pc = "idle"
    /\ \E read \in {{}, Ifaces}, write \in {0, 1} :
         sub' = SelectScan([SubIdle EXCEPT !.pc = "select_scan",
                                           !.need_block = (write = 0),
                                           !.read = read])
    /\ UNCHANGED << node_vars, fw_vars, rx_out, injected, rx_queue_, prioritized_tx_queue_, mutex_, other_blocks,
                    rx_count, tx_count, main >>

HasDataInRxQueueLock ==
    /\ sub.pc \in {"scan_hasDataInRxQueue_lock", "collect_hasDataInRxQueue_lock"}
    /\ lock_guard("sub")
    /\ sub' = [sub EXCEPT !.pc = IF sub.pc = "scan_hasDataInRxQueue_lock"
                                 THEN "scan_hasDataInRxQueue"
                                 ELSE "collect_hasDataInRxQueue"]
    /\ UNCHANGED << node_vars, fw_vars, rx_out, injected, rx_queue_, prioritized_tx_queue_, other_blocks, rx_count,
                    tx_count, main >>

\* return !rx_queue_.isEmpty();
hasDataInRxQueue(i) == rx_queue_[i] # <<>>

ScanHasDataInRxQueue ==
    /\ sub.pc = "scan_hasDataInRxQueue"
    /\ unlock
    /\ sub' = SelectScan([sub EXCEPT !.need_block = ~hasDataInRxQueue(sub.i),
                                     !.i = sub.i + 1,
                                     !.pc = "select_scan"])
    /\ UNCHANGED << node_vars, fw_vars, rx_out, injected, rx_queue_, prioritized_tx_queue_, other_blocks, rx_count,
                    tx_count, main >>

\* event_.waitFor(...): the thread starts to wait on the condition
\* variable; whatever was notified before this moment is not seen.
WaitForCall ==
    /\ sub.pc = "waitFor_call"
    /\ sub' = [sub EXCEPT !.pc = "waitFor"]
    /\ UNCHANGED << node_vars, fw_vars, rx_out, injected, rx_queue_, prioritized_tx_queue_, mutex_, other_blocks,
                    rx_count, tx_count, main >>

\* The wait ends at the blocking deadline or spuriously.
WaitForReturn ==
    /\ sub.pc = "waitFor"
    /\ sub' = Collecting(sub)
    /\ UNCHANGED << node_vars, fw_vars, rx_out, injected, rx_queue_, prioritized_tx_queue_, mutex_, other_blocks,
                    rx_count, tx_count, main >>

CollectHasDataInRxQueue ==
    /\ sub.pc = "collect_hasDataInRxQueue"
    /\ unlock
    /\ sub' = SelectCollect([sub EXCEPT
                               !.read = IF hasDataInRxQueue(sub.i) THEN @ \cup {sub.i} ELSE @,
                               !.i = sub.i + 1,
                               !.pc = "select_collect"])
    /\ UNCHANGED << node_vars, fw_vars, rx_out, injected, rx_queue_, prioritized_tx_queue_, other_blocks, rx_count,
                    tx_count, main >>

(***************************************************************************)
(* Secondary thread: Iface::send and Iface::receive.                       *)
(***************************************************************************)
Send ==
    /\ sub.pc = "idle"
    /\ rx_count + tx_count < MaxFrames
    /\ \E i \in Ifaces : sub' = [SubIdle EXCEPT !.pc = "send_lock", !.i = i]
    /\ UNCHANGED << node_vars, fw_vars, rx_out, injected, rx_queue_, prioritized_tx_queue_, mutex_, other_blocks,
                    rx_count, tx_count, main >>

SendLock ==
    /\ sub.pc = "send_lock"
    /\ lock_guard("sub")
    /\ sub' = [sub EXCEPT !.pc = "send"]
    /\ UNCHANGED << node_vars, fw_vars, rx_out, injected, rx_queue_, prioritized_tx_queue_, other_blocks, rx_count,
                    tx_count, main >>

SendBody ==
    /\ sub.pc = "send"
    /\ prioritized_tx_queue_' =
         [prioritized_tx_queue_ EXCEPT ![sub.i] = push(@, [id |-> tx_count + 1])]
    /\ tx_count' = tx_count + 1
    /\ unlock
    /\ sub' = [SubIdle EXCEPT !.ret = 1]
    /\ UNCHANGED << node_vars, fw_vars, rx_out, injected, rx_queue_, other_blocks, rx_count, main >>

Receive ==
    /\ sub.pc = "idle"
    /\ \E i \in Ifaces : sub' = [SubIdle EXCEPT !.pc = "receive_lock", !.i = i]
    /\ UNCHANGED << node_vars, fw_vars, rx_out, injected, rx_queue_, prioritized_tx_queue_, mutex_, other_blocks,
                    rx_count, tx_count, main >>

ReceiveLock ==
    /\ sub.pc = "receive_lock"
    /\ lock_guard("sub")
    /\ sub' = [sub EXCEPT !.pc = "receive"]
    /\ UNCHANGED << node_vars, fw_vars, rx_out, injected, rx_queue_, prioritized_tx_queue_, other_blocks, rx_count,
                    tx_count, main >>

\* Nothing is delivered from an empty queue; otherwise the first item is
\* copied out and removed.
ReceiveBody ==
    /\ sub.pc = "receive"
    /\ IF rx_queue_[sub.i] = <<>>
       THEN /\ sub' = SubIdle
            /\ UNCHANGED << rx_queue_, rx_out >>
       ELSE \E item \in {peek(rx_queue_[sub.i])} :
              /\ rx_queue_' = [rx_queue_ EXCEPT ![sub.i] = pop(@)]
              /\ rx_out' = [rx_out EXCEPT ![sub.i] =
                               [out_frame |-> item,
                                out_ts_monotonic |-> item.ts_mono,
                                out_ts_utc |-> item.ts_utc,
                                out_flags |-> item.flags]]
              /\ sub' = [SubIdle EXCEPT !.ret = 1]
    /\ unlock
    /\ UNCHANGED << node_vars, fw_vars, injected, prioritized_tx_queue_, other_blocks, rx_count,
                    tx_count, main >>

NextDriver ==
    \/ OtherAllocate
    \/ OtherDeallocate
    \/ HandleRxFrame
    \/ AddRxFrameLock
    \/ AddRxFrameTryEmplace
    \/ AddRxFramePop
    \/ AddRxFrameRetry
    \/ AddRxFrameUnlock
    \/ EventSignal
    \/ InjectTxFramesInto
    \/ FlushTxQueueToLock
    \/ FlushTxQueueToLoop
    \/ FlushTxQueueToUnlock
    \/ Select
    \/ HasDataInRxQueueLock
    \/ ScanHasDataInRxQueue
    \/ WaitForCall
    \/ WaitForReturn
    \/ CollectHasDataInRxQueue
    \/ Send
    \/ SendLock
    \/ SendBody
    \/ Receive
    \/ ReceiveLock
    \/ ReceiveBody

\* The two threads of the multithreading tutorial around one Driver.
SpecDriver == InitApi /\ [][NextDriver]_vars


(***************************************************************************)
(* updatee.cpp: the node that downloads a firmware image on request.  The  *)
(* node is single-threaded: the callbacks run inside node.spin, between    *)
(* two rounds of main's loop.                                              *)
(***************************************************************************)
\* FirmwareLoader::FirmwareLoader: the download starts upon construction.
FirmwareLoader(n, source_node_id) ==
    [constructed |-> TRUE,
     n |-> n,
     source_node_id_ |-> source_node_id,
     status_ |-> "InProgress",
     image_ |-> <<>>,
     timer |-> TRUE,
     read_client_ |-> {},
     reads |-> 0]

\* uavcan::TimerBase::stop() as called by the loader.
stop_notStopped(loader) == loader

stop(loader) == [loader EXCEPT !.timer = FALSE]

\* Node IDs carried by a BeginFirmwareUpdate request: its sender, and its
\* source_node_id field (0: the sender serves the file).
RequesterIds == {9}
SourceNodeIds == {0, 5}

\* Mutant: a request that arrives while a loader exists restarts the
\* download.
BeginFirmwareUpdate_restarts ==
    /\ \E src \in RequesterIds, source_node_id \in SourceNodeIds :
         /\ loaders < MaxLoaders
         /\ fw_loader' = FirmwareLoader(loaders + 1,
                                        IF source_node_id = 0 THEN src
                                        ELSE source_node_id)
         /\ loaders' = loaders + 1
         /\ bfu_resp' = "ERROR_OK"
    /\ UNCHANGED << node_vars, drv_vars, node_mode >>

\* The BeginFirmwareUpdate server callback.
BeginFirmwareUpdate ==
    /\ \E src \in RequesterIds, source_node_id \in SourceNodeIds :
         IF fw_loader.constructed
         THEN /\ bfu_resp' = "ERROR_IN_PROGRESS"
              /\ UNCHANGED << fw_loader, loaders >>
         ELSE /\ loaders < MaxLoaders
              /\ fw_loader' = FirmwareLoader(loaders + 1,
                                             IF source_node_id = 0 THEN src
                                             ELSE source_node_id)
              /\ loaders' = loaders + 1
              /\ bfu_resp' = "ERROR_OK"
    /\ UNCHANGED << node_vars, drv_vars, node_mode >>

\* Mutant: the timer issues a Read request even while a call is pending.
HandleTimerEvent_whilePending ==
    /\ fw_loader.constructed
    /\ fw_loader.timer
    /\ IF fw_loader.reads < MaxReads
       THEN \E res \in {-1, 0} :
              fw_loader' = IF res < 0 THEN fw_loader
                           ELSE [fw_loader EXCEPT
                                   !.read_client_ = @ \cup {Len(fw_loader.image_)},
                                   !.reads = @ + 1]
       ELSE UNCHANGED fw_loader
    /\ UNCHANGED << node_vars, drv_vars, loaders, node_mode, bfu_resp >>

\* FirmwareLoader::handleTimerEvent, every 200 ms while the timer runs: a
\* Read request for the next offset unless a call is pending; the call
\* itself may fail.
HandleTimerEvent ==
    /\ fw_loader.constructed
    /\ fw_loader.timer
    /\ IF fw_loader.read_client_ = {} /\ fw_loader.reads < MaxReads
       THEN \E res \in {-1, 0} :
              fw_loader' = IF res < 0 THEN fw_loader
                           ELSE [fw_loader EXCEPT
                                   !.read_client_ = @ \cup {Len(fw_loader.image_)},
                                   !.reads = @ + 1]
       ELSE UNCHANGED fw_loader
    /\ UNCHANGED << node_vars, drv_vars, loaders, node_mode, bfu_resp >>

\* The results a pending call can end with: a response with error 0 and up
\* to DataCapacity bytes (each byte tells the request it answers), a
\* response with an error, or a timeout.
ReadResults(loader) ==
    [successful : {TRUE}, error : {0},
     data : {[k \in 1 .. size |-> loader.reads] : size \in 0 .. DataCapacity}]
    \cup [successful : {TRUE}, error : {1}, data : {<<>>}]
    \cup [successful : {FALSE}, error : {0}, data : {<<>>}]

\* FirmwareLoader::handleReadResponse(result) on loader.
handleReadResponse(loader, result) ==
    IF result.successful /\ result.error = 0
    THEN IF Len(result.data) < DataCapacity
         THEN stop([loader EXCEPT !.image_ = @ \o result.data, !.status_ = "Success"])
         ELSE [loader EXCEPT !.image_ = @ \o result.data]
    ELSE stop([loader EXCEPT !.status_ = "Failure"])

\* A pending call of read_client_ ends and the callback runs.
HandleReadResponse ==
    /\ fw_loader.constructed
    /\ \E offset \in fw_loader.read_client_, result \in ReadResults(fw_loader) :
         fw_loader' = handleReadResponse(
                          [fw_loader EXCEPT !.read_client_ = @ \ {offset}], result)
    /\ UNCHANGED << node_vars, drv_vars, loaders, node_mode, bfu_resp >>

\* One round of main's loop, up to node.spin.
MainLoop ==
    /\ IF fw_loader.constructed
       THEN /\ node_mode' = MODE_SOFTWARE_UPDATE
            /\ fw_loader' = IF fw_loader.status_ # "InProgress" THEN NoLoader
                            ELSE fw_loader
       ELSE /\ node_mode' = MODE_OPERATIONAL
            /\ UNCHANGED fw_loader
    /\ UNCHANGED << node_vars, drv_vars, loaders, bfu_resp >>

NextUpdatee ==
    \/ BeginFirmwareUpdate
    \/ HandleTimerEvent
    \/ HandleReadResponse
    \/ MainLoop

SpecUpdatee == InitApi /\ [][NextUpdatee]_vars

(***************************************************************************)
(* Properties.                                                             *)
(***************************************************************************)
\* The data types of the frames handed to write() in this iteration, in
\* order; the latest of them; how many of them are of data type t.
TxTypes == [i \in 1..Len(tx) |-> DataTypeOf(tx[i].frame)]
Newest(log) == log[Len(log)]
CountOf(log, t) == Cardinality({i \in 1..Len(log) : DataTypeOf(log[i].frame) = t})
InLoop == pc \in {"loop", "publish_true_airspeed", "publish_node_status", "usleep"}

\* C1: for each message type, a publish call hands one frame of that type to
\* the transport, and the transfer ID in its tail byte is the transfer ID of
\* the previous frame of that type plus one modulo 32, also where the 8-bit
\* counter wraps from 255 to 0.
C1_TransferIdSequence ==
    [][ /\ pc = "publish_true_airspeed" =>
              /\ Len(tx') = Len(tx) + 1
              /\ DataTypeOf(Newest(tx').frame) = TrueAirspeedDataTypeId
              /\ last_tid[TrueAirspeedDataTypeId] >= 0 =>
                     TransferIdOf(Newest(tx').frame)
                         = (last_tid[TrueAirspeedDataTypeId] + 1) % 32
        /\ pc = "publish_node_status" =>
              /\ Len(tx') = Len(tx) + 1
              /\ DataTypeOf(Newest(tx').frame) = NodeStatusDataTypeId
              /\ last_tid[NodeStatusDataTypeId] >= 0 =>
                     TransferIdOf(Newest(tx').frame)
                         = (last_tid[NodeStatusDataTypeId] + 1) % 32
      ]_vars

\* Both 8-bit counters have wrapped to 0 after 256 publish calls each.
C1_Witness ==
    /\ pc = "usleep"
    /\ airspeed_tid = 0 /\ last_tid[TrueAirspeedDataTypeId] = 0
    /\ status_tid = 0 /\ last_tid[NodeStatusDataTypeId] = 31

\* C2: within an iteration the measurement frame (1020) is handed to the
\* transport before the heartbeat frame (341): the writes of an iteration
\* are a prefix of measurement, heartbeat (or the heartbeat alone when no
\* measurement is sent), and measurement, heartbeat once both are done.
C2_MeasurementBeforeHeartbeat ==
    /\ TxTypes \in { <<>>, << TrueAirspeedDataTypeId >>, << NodeStatusDataTypeId >>,
                     << TrueAirspeedDataTypeId, NodeStatusDataTypeId >> }
    /\ (pc = "usleep" /\ airspeed_computation_result = 0) =>
           TxTypes = << TrueAirspeedDataTypeId, NodeStatusDataTypeId >>

C2_Witness ==
    /\ pc = "usleep"
    /\ TxTypes = << TrueAirspeedDataTypeId, NodeStatusDataTypeId >>

\* C3: the health carried by the heartbeat of an iteration is Ok when the
\* measurement step of that iteration succeeded and Error when it failed,
\* whatever happened in earlier iterations.
C3_HealthOneStepMemory ==
    pc = "usleep" =>
        HealthOf(Newest(tx).frame) =
            IF airspeed_computation_result = 0 /\ publication_result >= 0
            THEN HEALTH_OK ELSE HEALTH_ERROR

\* The heartbeat reports Ok in the iteration after a failed measurement send.
C3_Witness ==
    /\ pc = "usleep"
    /\ prev_meas = "failed"
    /\ airspeed_computation_result = 0 /\ publication_result >= 0
    /\ HealthOf(Newest(tx).frame) = HEALTH_OK

\* C4 as stated: on the transport failing every third send, the heartbeat
\* of the iteration that follows a failed measurement send carries Error.
C4_DegradedInFollowingIteration ==
    (pc = "usleep" /\ prev_meas = "failed") =>
        HealthOf(Newest(tx).frame) = HEALTH_ERROR

\* C4 as amended: on the transport failing every third send, health takes
\* the value Error in the step of the failed measurement send itself (the
\* same iteration, before its heartbeat) and the value Ok in the step of the
\* next successful measurement send.
C4_DegradedInSameIteration ==
    [][ pc = "publish_true_airspeed" =>
            /\ Newest(tx').ret < 0 => health' = HEALTH_ERROR
            /\ Newest(tx').ret >= 0 => health' = HEALTH_OK
      ]_vars

\* Health is back to Ok in the iteration after a failed measurement send.
C4_Witness ==
    /\ sends >= 0
    /\ pc = "usleep"
    /\ prev_meas = "failed"
    /\ health = HEALTH_OK /\ tx[1].ret >= 0

\* C5: a publish call whose send fails advances the transfer counter of its
\* message type by one, and the measurement frame after a failed one carries
\* the following transfer ID.
C5_CounterCountsAttempts ==
    [][ /\ (pc = "publish_true_airspeed" /\ Newest(tx').ret < 0) =>
               airspeed_tid' = (airspeed_tid + 1) % 256
        /\ (pc = "publish_node_status" /\ Newest(tx').ret < 0) =>
               status_tid' = (status_tid + 1) % 256
        /\ (pc = "publish_true_airspeed" /\ prev_meas = "failed") =>
               TransferIdOf(Newest(tx').frame)
                   = (last_tid[TrueAirspeedDataTypeId] + 1) % 32
      ]_vars

\* Both sends of the iteration after a failed measurement send failed too.
C5_Witness ==
    /\ pc = "usleep"
    /\ prev_meas = "failed"
    /\ Len(tx) = 2 /\ tx[1].ret < 0 /\ tx[2].ret < 0

\* C6: uavcan_broadcast called with a payload longer than 7 bytes, a
\* priority above 31 or a null payload returns an error and writes nothing;
\* a call writes at most one frame, and that frame holds the whole payload
\* followed by one tail byte.
C6_BroadcastFailsClosed ==
    call.fn = "uavcan_broadcast" =>
        /\ (call.payload_len > 7 \/ call.priority > 31 \/ call.payload = NULL) =>
               (call.ret < 0 /\ tx = <<>>)
        /\ Len(tx) <= 1
        /\ \A i \in 1..Len(tx) :
               /\ tx[i].frame.dlc = call.payload_len + 1
               /\ SubSeq(tx[i].frame.data, 1, call.payload_len) = call.payload

\* An 8-byte payload at a valid priority is refused.
C6_Witness ==
    /\ call.fn = "uavcan_broadcast"
    /\ call.payload_len = 8 /\ call.payload # NULL /\ call.priority <= 31
    /\ call.ret < 0 /\ tx = <<>>

\* C7: every frame handed to write() has at most 8 bytes; can_send writes
\* nothing when the length is above 8 or the data pointer is null.
C7_FrameAtMostEightBytes ==
    /\ \A i \in 1..Len(tx) :
           /\ tx[i].frame.dlc <= 8
           /\ Len(tx[i].frame.data) = tx[i].frame.dlc
    /\ (call.fn = "can_send" /\ (call.frame_data_len > 8 \/ call.frame_data = NULL)) =>
           (tx = <<>> /\ call.ret < 0)

\* A 7-byte payload leaves uavcan_broadcast as a frame of 8 bytes.
C7_Witness ==
    /\ call.fn = "uavcan_broadcast"
    /\ Len(tx) = 1 /\ tx[1].frame.dlc = 8

\* C8: once the loop has been entered, the program is again and again
\* about to send a heartbeat and again and again has just sent one,
\* whatever the results of the sends.
C8_LoopNeverEnds ==
    [](InLoop => ([]<>(pc = "publish_node_status") /\ []<>(pc = "usleep")))

\* An iteration whose measurement send failed has ended, after at least two
\* heartbeats, and the next iteration begins.
C8_Witness ==
    /\ pc = "loop"
    /\ prev_meas = "failed"
    /\ health = HEALTH_ERROR
    /\ status_tid > 1

\* C9: an iteration hands at most one measurement frame and, once the
\* heartbeat step is done, exactly one heartbeat frame to write(); the frame
\* of a publish call never repeats the latest frame of its type: it carries
\* another transfer ID.
C9_NoRetryNoQueue ==
    [][ /\ CountOf(tx', TrueAirspeedDataTypeId) <= 1
        /\ CountOf(tx', NodeStatusDataTypeId) <= 1
        /\ pc = "publish_node_status" => CountOf(tx', NodeStatusDataTypeId) = 1
        /\ (pc = "publish_true_airspeed" /\ last_tid[TrueAirspeedDataTypeId] >= 0) =>
               TransferIdOf(Newest(tx').frame) # last_tid[TrueAirspeedDataTypeId]
        /\ (pc = "publish_node_status" /\ last_tid[NodeStatusDataTypeId] >= 0) =>
               TransferIdOf(Newest(tx').frame) # last_tid[NodeStatusDataTypeId]
      ]_vars

\* The iteration after a failed measurement write has sent its two frames.
C9_Witness ==
    /\ pc = "usleep"
    /\ prev_meas = "failed"
    /\ Len(tx) = 2
    /\ tx[2].ret < 0

\* C10: the heartbeat step leaves health unchanged, whether its send
\* succeeded or failed.
C10_HeartbeatFailureKeepsHealth ==
    [][ pc = "publish_node_status" => health' = health ]_vars

\* A heartbeat send has failed and health is still Ok.
C10_Witness ==
    /\ pc = "usleep"
    /\ Newest(tx).ret < 0
    /\ DataTypeOf(Newest(tx).frame) = NodeStatusDataTypeId
    /\ health = HEALTH_OK

\* C11: a run whose node ID argument is 0 or above 127 exits with a non-zero
\* status without opening the transport or sending a frame, and the main
\* loop is entered only with a node ID in 1..127 that is the integer of the
\* command line.
C11_InvalidNodeIdRejected ==
    /\ (argc >= 3 /\ (argv_node_id = 0 \/ argv_node_id > 127)) =>
           /\ pc \in {"main", "exit"}
           /\ pc = "exit" => exit_code # 0
           /\ can_socket = -1
           /\ tx = <<>>
           /\ \A t \in DataTypes : last_tid[t] = -1
    /\ InLoop => (uavcan_node_id \in 1..127 /\ uavcan_node_id = argv_node_id)

\* C12: when can_init fails the process exits with a non-zero status and
\* never writes a frame; the main loop runs only with the bound socket.
C12_OpenFailureIsFatal ==
    /\ InLoop => can_socket >= 0
    /\ can_socket < 0 =>
           /\ tx = <<>>
           /\ \A t \in DataTypes : last_tid[t] = -1
    /\ pc = "exit" => (exit_code # 0 /\ can_socket < 0)

\* A run with a valid node ID has ended because can_init failed.
C12_Witness ==
    /\ pc = "exit"
    /\ argc >= 3
    /\ uavcan_node_id \in 1..127
    /\ can_socket < 0
    /\ exit_code = 1

\* The inverse unpacking of a message frame's identifier by a receiver:
\* priority in bits 28..24, data type ID in bits 23..8 (DataTypeOf), source
\* node ID in bits 6..0.
PriorityOf(frame) == Shr(frame.id, 24) % 32
SourceNodeOf(frame) == frame.id % 128

\* A call of uavcan_broadcast with a priority, data type ID, node ID and
\* transfer ID within their field widths that has written its frame.
ValidBroadcast ==
    /\ call.fn = "uavcan_broadcast"
    /\ call.priority \in 0..31
    /\ call.data_type_id \in 0..65535
    /\ uavcan_node_id \in 1..127
    /\ call.transfer_id \in 0..31
    /\ Len(tx) = 1

\* C13 as stated: the identifier of the frame determines all four values,
\* the transfer ID among them: the same call with another transfer ID gives
\* another identifier.
C13_AddressingFieldCarriesFour ==
    ValidBroadcast =>
        \A other \in (0..31) \ {call.transfer_id} :
            uavcan_broadcast(uavcan_node_id, call.priority, call.data_type_id,
                             other, call.payload, call.payload_len,
                             CanFrameSize).written[1].id
                # tx[1].frame.id

\* C13 as amended: the frame of a valid broadcast decodes back to the four
\* values: priority, data type ID and node ID from the identifier, and the
\* transfer ID from the low 5 bits of the tail byte.
C13_FrameDecodesToFour ==
    ValidBroadcast =>
        /\ PriorityOf(tx[1].frame) = call.priority
        /\ DataTypeOf(tx[1].frame) = call.data_type_id
        /\ SourceNodeOf(tx[1].frame) = uavcan_node_id
        /\ TransferIdOf(tx[1].frame) = call.transfer_id

\* The largest value of every field has been encoded.
C13_Witness ==
    /\ ValidBroadcast
    /\ call.priority = 31 /\ call.data_type_id = 65535
    /\ uavcan_node_id = 127 /\ call.transfer_id = 31

\* C14: a call of uavcan_broadcast that passes the checks writes one frame
\* of payload_len + 1 bytes: the payload bytes unchanged, then the tail byte
\* whose low 5 bits are the transfer ID modulo 32 and whose upper 3 bits are
\* 110 (start of transfer, end of transfer, toggle clear).
C14_TailByteFormat ==
    call.fn = "uavcan_broadcast" =>
        /\ (call.payload # NULL /\ call.payload_len <= 7 /\ call.priority <= 31) =>
               Len(tx) = 1
        /\ \A i \in 1..Len(tx) :
               /\ tx[i].frame.dlc = call.payload_len + 1
               /\ Len(tx[i].frame.data) = call.payload_len + 1
               /\ SubSeq(tx[i].frame.data, 1, call.payload_len) = call.payload
               /\ TailByte(tx[i].frame) % 32 = call.transfer_id % 32
               /\ TailByte(tx[i].frame) \div 32 = 6

\* Transfer ID 255 has left with a 7-byte payload under the tail byte 0xDF.
C14_Witness ==
    /\ call.fn = "uavcan_broadcast"
    /\ call.transfer_id = 255 /\ call.payload_len = 7
    /\ Len(tx) = 1 /\ tx[1].frame.data[8] = 223

\* C15: every frame handed to write() has the extended-frame flag set, and
\* the identifier of a broadcast is below 2^29 and is the sum of the
\* priority at bit 24, the data type ID at bit 8 and the node ID at bit 0,
\* each within its own bits.
C15_ExtendedAddressing ==
    /\ \A i \in 1..Len(tx) : tx[i].frame.eff = TRUE
    /\ (call.fn = "uavcan_broadcast" /\ Len(tx) = 1) =>
           /\ call.priority < 32 /\ call.data_type_id < 65536 /\ uavcan_node_id < 128
           /\ tx[1].frame.id < 536870912
           /\ tx[1].frame.id = call.priority * 16777216
                                   + call.data_type_id * 256 + uavcan_node_id

\* The largest identifier of a broadcast has been written.
C15_Witness ==
    /\ call.fn = "uavcan_broadcast"
    /\ Len(tx) = 1
    /\ tx[1].frame.eff = TRUE
    /\ tx[1].frame.id = 536870783

\* C16: the heartbeat payload has 7 bytes, each below 256; bytes 0..3 read
\* low byte first give the 32-bit uptime (compared in its two 16-bit
\* halves), byte 4 holds the health in its top 2 bits, the mode in the next
\* 3 bits and zeros in its low 3 bits, and bytes 5..6 read low byte first
\* give the status code: decoding returns the four inputs.
C16_NodeStatusLayout ==
    call.fn = "NodeStatusPayload" =>
        LET payload == call.payload
        IN  /\ Len(payload) = 7
            /\ \A i \in 1..7 : payload[i] \in 0..255
            /\ payload[1] + 256 * payload[2] = call.uptime_lo
            /\ payload[3] + 256 * payload[4] = call.uptime_hi
            /\ payload[5] \div 64 = call.health
            /\ (payload[5] \div 8) % 8 = call.mode
            /\ payload[5] % 8 = 0
            /\ payload[6] + 256 * payload[7] = call.vendor_specific_status_code

\* The largest uptime, health, mode and status code have been serialized.
C16_Witness ==
    /\ call.fn = "NodeStatusPayload"
    /\ call.uptime_hi = 65535 /\ call.uptime_lo = 65535
    /\ call.health = HEALTH_CRITICAL /\ call.mode = MODE_OFFLINE
    /\ call.vendor_specific_status_code = 65535
    /\ call.payload = << 255, 255, 255, 255, 248, 255, 255 >>

\* The IEEE 754 binary16 encodings of the values of ApiFloats: 1.2345, 0.0,
\* -1.0, 65504.0, +infinity and 0.1.
HalfOf(x) ==
    CASE x = Float(FALSE, StubAirspeedBits) -> 15600
      [] x = Float(FALSE, StubVarianceBits) -> 0
      [] x = Float(TRUE, 1065353216) -> 48128
      [] x = Float(FALSE, 1199562752) -> 31743
      [] x = Float(FALSE, 2139095040) -> 31744
      [] x = Float(FALSE, 1036831949) -> 11878

\* C17: the frame of publish_true_airspeed has data type ID 1020 and a
\* payload of 4 bytes before the tail byte: the half-precision encoding of
\* the mean, low byte first, then that of the variance, low byte first.
C17_TrueAirspeedLayout ==
    call.fn = "publish_true_airspeed" =>
        /\ Len(tx) = 1
        /\ DataTypeOf(tx[1].frame) = TrueAirspeedDataTypeId
        /\ tx[1].frame.dlc = 5
        /\ \A i \in 1..4 : tx[1].frame.data[i] \in 0..255
        /\ tx[1].frame.data[1] + 256 * tx[1].frame.data[2] = HalfOf(call.mean)
        /\ tx[1].frame.data[3] + 256 * tx[1].frame.data[4] = HalfOf(call.variance)

\* The mean -1.0 with the variance 0.1 has been sent: 00 BC 66 2E.
C17_Witness ==
    /\ call.fn = "publish_true_airspeed"
    /\ call.mean = Float(TRUE, 1065353216)
    /\ call.variance = Float(FALSE, 1036831949)
    /\ Len(tx) = 1
    /\ SubSeq(tx[1].frame.data, 1, 4) = << 0, 188, 102, 46 >>

\* C18: a node started with the argument 42 whose first computation gives
\* (1.2345, 0.0) has, at the end of its first iteration, handed to write()
\* exactly one measurement frame (sender 42, priority PRIORITY_MEDIUM,
\* payload F0 3C 00 00: half(1.2345) = 0x3CF0, half(0.0) = 0) and then
\* exactly one heartbeat frame whose uptime bytes are 0.
C18_FirstIteration ==
    (/\ pc = "usleep"
     /\ clock \in InitialClocks
     /\ argv_node_id = 42
     /\ airspeed_computation_result = 0) =>
        /\ Len(tx) = 2
        /\ DataTypeOf(tx[1].frame) = TrueAirspeedDataTypeId
        /\ SourceNodeOf(tx[1].frame) = 42
        /\ PriorityOf(tx[1].frame) = PRIORITY_MEDIUM
        /\ tx[1].frame.dlc = 5
        /\ SubSeq(tx[1].frame.data, 1, 4) = << 240, 60, 0, 0 >>
        /\ DataTypeOf(tx[2].frame) = NodeStatusDataTypeId
        /\ SourceNodeOf(tx[2].frame) = 42
        /\ SubSeq(tx[2].frame.data, 1, 4) = << 0, 0, 0, 0 >>

\* The first iteration of node 42 has ended with both frames written.
C18_Witness ==
    /\ pc = "usleep"
    /\ clock \in InitialClocks
    /\ argv_node_id = 42
    /\ Len(tx) = 2
    /\ tx[1].ret = CanFrameSize /\ tx[2].ret = CanFrameSize

\* C19: once a first call of publish_node_status has been made (a heartbeat
\* frame has been handed to write()), no later call changes the uptime
\* origin startup_timestamp_usec, whatever the clock returned on the first
\* call, a failed read (0) included.
C19_OriginCapturedOnce ==
    [][ (pc = "publish_node_status" /\ last_tid[NodeStatusDataTypeId] >= 0) =>
            startup_timestamp_usec' = startup_timestamp_usec ]_vars

\* The mode field of a NodeStatus frame: bits 5..3 of payload byte 4.
ModeOf(frame) == Shr(frame.data[5], 3) % 8

\* C20: every heartbeat frame handed to write() carries the mode
\* Operational, whatever the health and the results of the sends.
C20_ModeAlwaysOperational ==
    \A i \in 1..Len(tx) :
        DataTypeOf(tx[i].frame) = NodeStatusDataTypeId =>
            ModeOf(tx[i].frame) = MODE_OPERATIONAL

\* A heartbeat with health Error and mode Operational has been sent after
\* a failed measurement send, and its own send has failed.
C20_Witness ==
    /\ pc = "usleep"
    /\ Len(tx) = 2
    /\ tx[1].ret < 0 /\ tx[2].ret < 0
    /\ HealthOf(tx[2].frame) = HEALTH_ERROR
    /\ ModeOf(tx[2].frame) = MODE_OPERATIONAL

\* C21: a call of can_send makes at most one write() (exactly one when its
\* arguments pass the check), and returns what that write() returned: the
\* whole frame size, a short write or an error.
C21_SingleWriteResultUnchanged ==
    call.fn = "can_send" =>
        /\ Len(tx) <= 1
        /\ (call.frame_data_len <= 8 /\ call.frame_data # NULL) =>
               (Len(tx) = 1 /\ call.ret = call.w)

\* A short write has been returned to the caller as it was.
C21_Witness ==
    /\ call.fn = "can_send"
    /\ Len(tx) = 1
    /\ call.w = 0 /\ call.ret = 0

\* The exponent field and the mantissa of the magnitude bits of a float,
\* and the magnitude bits (low 15 bits) of a half.
ExpOf(bits) == Shr(bits, 23)
MantOf(bits) == bits % 8388608
HalfMagnitude(out) == out % 32768

\* C22: bit 15 of the result of make_float16 is the sign bit of the input,
\* for zero, infinity and NaN too; the low 15 bits are those of the result
\* for the input of the other sign; +0.0 gives 0x0000 and -0.0 gives 0x8000.
C22_SignPreserved ==
    call.fn = "make_float16" =>
        /\ call.out \in 0..65535
        /\ Shr(call.out, 15) = (IF call.value.negative THEN 1 ELSE 0)
        /\ HalfMagnitude(call.out)
               = HalfMagnitude(make_float16(call.value.bits, ~call.value.negative))
        /\ call.value.bits = 0 =>
               call.out = (IF call.value.negative THEN 32768 ELSE 0)

\* A negative NaN has been encoded as 0xFFFF.
C22_Witness ==
    /\ call.fn = "make_float16"
    /\ call.value = Float(TRUE, 2143289344)
    /\ call.out = 65535

\* C23 as stated: every finite input above the largest finite half (65504,
\* bits 0x477FE000) and every infinity gives the infinity pattern 0x7C00
\* with the sign of the input, every NaN a quiet NaN with the sign of the
\* input, and no magnitude is above 0x7FFF.
C23_SaturatesAboveFiniteRange ==
    call.fn = "make_float16" =>
        /\ (call.value.bits > 1199562752 /\ call.value.bits <= 2139095040) =>
               HalfMagnitude(call.out) = 31744
        /\ call.value.bits > 2139095040 =>
               HalfMagnitude(call.out) >= 32256
        /\ HalfMagnitude(call.out) <= 32767
        /\ Shr(call.out, 15) = (IF call.value.negative THEN 1 ELSE 0)

\* C23 as amended: every finite input of magnitude 65520 (bits 0x477FF000)
\* or more and every infinity gives 0x7C00 with the sign of the input; a
\* finite input below 65520 gives a finite half; every NaN gives the quiet
\* NaN 0x7FFF with the sign of the input.
C23_SaturatesFromRoundingBoundary ==
    call.fn = "make_float16" =>
        /\ (call.value.bits >= 1199566848 /\ call.value.bits <= 2139095040) =>
               HalfMagnitude(call.out) = 31744
        /\ call.value.bits < 1199566848 => HalfMagnitude(call.out) < 31744
        /\ call.value.bits > 2139095040 => HalfMagnitude(call.out) = 32767
        /\ Shr(call.out, 15) = (IF call.value.negative THEN 1 ELSE 0)

\* -65520.0 has been encoded as the negative infinity 0xFC00.
C23_Witness ==
    /\ call.fn = "make_float16"
    /\ call.value = Float(TRUE, 1199566848)
    /\ call.out = 64512

\* The exact decoding of the magnitude of a half to the magnitude bits of a
\* float: zero, a subnormal half m * 2^-24 (normalised), a normal half, or
\* infinity.
HalfToFloat(k) ==
    LET E == k \div 1024
        mu == k % 1024
    IN  IF E = 31 THEN Shl(255, 23) + Shl(mu, 13)
        ELSE IF E >= 1 THEN Shl(E + 112, 23) + Shl(mu, 13)
        ELSE IF mu = 0 THEN 0
        ELSE LET p == CHOOSE i \in 0..9 : Pow2(i) <= mu /\ mu < Pow2(i + 1)
             IN  Shl(103 + p, 23) + Shl(mu - Pow2(p), 23 - p)

\* C24: for a finite input, decoding the result of make_float16 exactly and
\* encoding that value again gives the same result.
C24_QuantizationIdempotent ==
    (call.fn = "make_float16" /\ ExpOf(call.value.bits) < 255) =>
        make_float16(HalfToFloat(HalfMagnitude(call.out)), call.value.negative)
            = call.out

\* 1.5 * 2^-24 has been encoded as the subnormal half 2.
C24_Witness ==
    /\ call.fn = "make_float16"
    /\ call.value = Float(FALSE, 868220928)
    /\ call.out = 2

\* C25: for a finite input that does not overflow (below 65520), with
\* M the 24-bit significand of the input and k the magnitude of the result:
\* in the normal range the result lies in the binade of the input or at the
\* start of the next, and the input is at most half a step (4096 units of
\* the significand) from it; in the subnormal range the input is at most
\* half of 2^-24 from k * 2^-24; a tie is never resolved downwards;
\* an input below 2^-25 gives zero.
C25_RoundToNearest ==
    (call.fn = "make_float16" /\ call.value.bits < 1199566848) =>
        LET e == ExpOf(call.value.bits)
            M == 8388608 + MantOf(call.value.bits)
            k == HalfMagnitude(call.out)
        IN  IF e >= 113
            THEN LET N == k - (e - 113) * 1024
                 IN  /\ k >= (e - 112) * 1024 /\ k <= (e - 111) * 1024
                     /\ M - N * 8192 <= 4096
                     /\ N * 8192 - M <= 4096
                     /\ M - N * 8192 # 4096
            ELSE IF e >= 102
            THEN LET t == 126 - e
                 IN  /\ k >= 1 /\ k <= Pow2(24 - t)
                     /\ M - k * Pow2(t) <= Pow2(t - 1)
                     /\ k * Pow2(t) - M <= Pow2(t - 1)
                     /\ M - k * Pow2(t) # Pow2(t - 1)
            ELSE k = 0

\* The tie 1 + 2^-11 has been encoded as 0x3C01, the half above it.
C25_Witness ==
    /\ call.fn = "make_float16"
    /\ call.value = Float(FALSE, 1065357312)
    /\ call.out = 15361

\* The body of addRxFrame has run to its end and the lock is still held;
\* the last element of a list.
AddRxFrameDone == main.pc = "addRxFrame_unlock"
Back(list_) == list_[Len(list_)]

MainInBody ==
    main.pc \in {"addRxFrame_tryEmplace", "addRxFrame_pop", "addRxFrame_retry",
                 "addRxFrame_unlock", "flushTxQueueTo_loop", "flushTxQueueTo_unlock"}
SubInBody ==
    sub.pc \in {"scan_hasDataInRxQueue", "collect_hasDataInRxQueue", "send", "receive"}

\* C27: the main thread is never inside the body of addRxFrame or
\* flushTxQueueTo while the secondary thread is inside the body of send,
\* receive or hasDataInRxQueue, whatever the ifaces; a thread inside such a
\* body holds the Driver's mutex.
C27_BodiesMutuallyExclusive ==
    /\ ~(MainInBody /\ SubInBody)
    /\ MainInBody => mutex_ = "main"
    /\ SubInBody => mutex_ = "sub"

\* The main thread waits to add a frame to one iface while the secondary
\* thread receives from the other.
C27_Witness ==
    /\ main.pc = "addRxFrame_lock"
    /\ sub.pc = "receive"
    /\ main.i # sub.i
    /\ mutex_ = "sub"

\* C28: the secondary thread is never left waiting on the event, with the
\* main thread back from handleRxFrame and its signal, while the RX queue
\* of an iface whose read bit select was given holds a frame.
C28_NeverLeftWaiting ==
    ~ /\ sub.pc = "waitFor"
      /\ main.pc = "idle"
      /\ \E i \in sub.read : rx_queue_[i] # <<>>

\* Steps within the life of one loader.
SameLoader ==
    /\ fw_loader.constructed
    /\ fw_loader'.constructed
    /\ fw_loader'.n = fw_loader.n

\* C29: a loader is constructed with status InProgress; within the life of
\* a loader the status changes only from InProgress to Success or to
\* Failure; once it is Success or Failure it stays, the timer is stopped
\* and the loader issues no further Read request.
C29_StatusTransitions ==
    [][/\ ~fw_loader.constructed /\ fw_loader'.constructed =>
            fw_loader'.status_ = "InProgress"
       /\ SameLoader =>
            \/ fw_loader'.status_ = fw_loader.status_
            \/ /\ fw_loader.status_ = "InProgress"
               /\ fw_loader'.status_ \in {"Success", "Failure"}
               /\ ~fw_loader'.timer
       /\ SameLoader /\ fw_loader.status_ # "InProgress" =>
            /\ ~fw_loader'.timer
            /\ fw_loader'.reads = fw_loader.reads
            /\ fw_loader'.read_client_ = {}]_vars

\* A download of two full chunks and a short one has ended in Success with
\* the timer stopped.
C29_Witness ==
    /\ fw_loader.constructed
    /\ fw_loader.status_ = "Success"
    /\ fw_loader.reads = 3
    /\ Len(fw_loader.image_) > 2 * DataCapacity
    /\ ~fw_loader.timer

\* C30: the frame of the n-th call of publish_node_status carries the
\* transfer ID (n - 1) mod 32 and the frame of the n-th call of
\* publish_true_airspeed carries n mod 32 (the first ones carry 0 and 1);
\* a measurement frame carries 0 on the 32nd call at the earliest.
C30_FirstTransferIds ==
    \A i \in 1..Len(tx) :
        LET t == DataTypeOf(tx[i].frame)
            n == calls[t]
        IN  (call.fn = "none" /\ n < MaxCalls) =>
                /\ t = NodeStatusDataTypeId =>
                       TransferIdOf(tx[i].frame) = (n - 1) % 32
                /\ t = TrueAirspeedDataTypeId =>
                       /\ TransferIdOf(tx[i].frame) = n % 32
                       /\ TransferIdOf(tx[i].frame) = 0 => n >= 32

\* The 32nd measurement frame carries 0 and the 32nd heartbeat carries 31.
C30_Witness ==
    /\ pc = "usleep"
    /\ Len(tx) = 2
    /\ calls[TrueAirspeedDataTypeId] = 32 /\ TransferIdOf(tx[1].frame) = 0
    /\ calls[NodeStatusDataTypeId] = 32 /\ TransferIdOf(tx[2].frame) = 31

\* C31: when compute_true_airspeed reports a failure, the iteration hands
\* no measurement frame to the transport and leaves the measurement
\* transfer counter alone, health becomes Error, and the heartbeat, the
\* only frame of the iteration, carries Error; the measurement frame of the
\* next iteration that sends one carries the transfer ID that follows the
\* one of the latest measurement frame.
C31_FailedComputation ==
    [][ /\ (pc = "loop" /\ airspeed_computation_result' # 0) =>
               /\ tx' = <<>>
               /\ airspeed_tid' = airspeed_tid
               /\ health' = HEALTH_ERROR
               /\ pc' = "publish_node_status"
        /\ (pc = "publish_node_status" /\ airspeed_computation_result # 0) =>
               /\ airspeed_tid' = airspeed_tid
               /\ Len(tx') = 1
               /\ DataTypeOf(tx'[1].frame) = NodeStatusDataTypeId
               /\ HealthOf(tx'[1].frame) = HEALTH_ERROR
        /\ (pc = "publish_true_airspeed" /\ prev_meas = "none"
              /\ last_tid[TrueAirspeedDataTypeId] >= 0) =>
               TransferIdOf(Newest(tx').frame)
                   = (last_tid[TrueAirspeedDataTypeId] + 1) % 32
      ]_vars

\* The second measurement frame, sent in the iteration after one whose
\* computation failed, carries the transfer ID 2.
C31_Witness ==
    /\ pc = "publish_node_status"
    /\ prev_meas = "none"
    /\ faults = 1
    /\ calls[TrueAirspeedDataTypeId] = 2
    /\ Len(tx) = 1 /\ TransferIdOf(tx[1].frame) = 2

\* C32: in the main loop every call of a publisher hands a frame to the
\* transport, of 5 bytes and priority 16 for the measurement and of 8 bytes
\* and priority 24 for the heartbeat, and the result of the measurement
\* publisher is what the write of that frame returned.
C32_EncoderNeverRejects ==
    [][ /\ pc = "publish_true_airspeed" =>
               /\ Len(tx') = Len(tx) + 1
               /\ Newest(tx').frame.dlc = 5
               /\ Len(Newest(tx').frame.data) = 5
               /\ PriorityOf(Newest(tx').frame) = PRIORITY_MEDIUM
               /\ publication_result' = Newest(tx').ret
               /\ publication_result' \in WriteOutcomes
        /\ pc = "publish_node_status" =>
               /\ Len(tx') = Len(tx) + 1
               /\ Newest(tx').frame.dlc = 8
               /\ Len(Newest(tx').frame.data) = 8
               /\ PriorityOf(Newest(tx').frame) = PRIORITY_LOW
               /\ Newest(tx').ret \in WriteOutcomes
      ]_vars

\* Both frames of an iteration have been offered to a transport that
\* refused the measurement frame.
C32_Witness ==
    /\ pc = "usleep"
    /\ Len(tx) = 2
    /\ tx[1].frame.dlc = 5 /\ tx[2].frame.dlc = 8
    /\ tx[1].ret < 0 /\ publication_result < 0

\* The 32-bit uptime of four payload bytes as its two 16-bit halves, high
\* half first, and the order of two uptimes.
UptimeHalves(bytes) == << bytes[3] + 256 * bytes[4], bytes[1] + 256 * bytes[2] >>
UptimeLeq(a, b) ==
    \/ UptimeHalves(a)[1] < UptimeHalves(b)[1]
    \/ /\ UptimeHalves(a)[1] = UptimeHalves(b)[1]
       /\ UptimeHalves(a)[2] <= UptimeHalves(b)[2]

\* C33: the uptime carried by a heartbeat is not less than the uptime
\* carried by the heartbeat before it, also when clock reads may fail.
C33_UptimeNonDecreasing ==
    [][ (pc = "publish_node_status" /\ last_uptime # <<>>) =>
            UptimeLeq(last_uptime, last_uptime')
      ]_vars

\* C34: the heartbeat of an iteration that published a measurement carries
\* Error exactly when the publisher returned a negative value; a write
\* that returned a byte count from 0 to less than the frame size counts as
\* a success and the heartbeat carries Ok.
C34_ShortWriteIsSuccess ==
    (pc = "usleep" /\ airspeed_computation_result = 0) =>
        /\ HealthOf(Newest(tx).frame) = HEALTH_ERROR <=> tx[1].ret < 0
        /\ tx[1].ret \in 0 .. CanFrameSize - 1 =>
               /\ publication_result = tx[1].ret
               /\ health = HEALTH_OK
               /\ HealthOf(Newest(tx).frame) = HEALTH_OK

\* The write of the measurement frame returned 0 and the heartbeat of the
\* iteration carries Ok.
C34_Witness ==
    /\ pc = "usleep"
    /\ airspeed_computation_result = 0
    /\ tx[1].ret = 0
    /\ HealthOf(tx[2].frame) = HEALTH_OK

\* The frames of a queue are in the order of their ids.
IdsIncrease(queue) == \A k \in 1 .. Len(queue) - 1 : queue[k].id < queue[k + 1].id

\* C35: every RX queue holds, oldest first, frames that were passed to
\* addRxFrame for its iface; a call of receive on an empty queue returns 0
\* and leaves the queue and the output arguments alone; a call on a queue
\* with frames returns 1, delivers the oldest frame with the timestamps and
\* flags it was added with, removes that frame and no other, and the frame
\* delivered is newer than every frame delivered on that iface before.
C35_ReceiveFirstInFirstOut ==
    [][/\ \A i \in Ifaces :
            /\ IdsIncrease(rx_queue_'[i])
            /\ \A k \in 1 .. Len(rx_queue_'[i]) :
                 /\ rx_queue_'[i][k].id \in 1 .. rx_count'
                 /\ rx_queue_'[i][k] = RxFrame(rx_queue_'[i][k].id, i)
       /\ rx_out' # rx_out => sub.pc = "receive"
       /\ (sub.pc = "receive" /\ sub' # sub) =>
            IF rx_queue_[sub.i] = <<>>
            THEN /\ sub'.ret = 0
                 /\ rx_out' = rx_out
                 /\ rx_queue_' = rx_queue_
            ELSE /\ sub'.ret = 1
                 /\ rx_out'[sub.i].out_frame = Head(rx_queue_[sub.i])
                 /\ rx_out'[sub.i].out_ts_monotonic = 100 + Head(rx_queue_[sub.i]).id
                 /\ rx_out'[sub.i].out_ts_utc = 200 + Head(rx_queue_[sub.i]).id
                 /\ rx_out'[sub.i].out_flags = Head(rx_queue_[sub.i]).id % 2
                 /\ Head(rx_queue_[sub.i]).id > rx_out[sub.i].out_frame.id
                 /\ rx_queue_' = [rx_queue_ EXCEPT ![sub.i] = Tail(@)]
                 /\ \A i \in Ifaces \ {sub.i} : rx_out'[i] = rx_out[i]]_vars

\* receive has returned the older of two queued frames and left the newer
\* one in the queue.
C35_Witness ==
    /\ sub.pc = "idle"
    /\ sub.ret = 1
    /\ rx_count = 2
    /\ rx_out[0].out_frame = RxFrame(1, 0)
    /\ rx_queue_[0] = << RxFrame(2, 0) >>

\* A step of the main thread inside the loop of flushTxQueueTo.
FlushRound ==
    /\ main.pc = "flushTxQueueTo_loop"
    /\ << main, prioritized_tx_queue_, injected >>' # << main, prioritized_tx_queue_, injected >>

FullChunks(n) == [k \in 1 .. n * DataCapacity |-> ((k - 1) \div DataCapacity) + 1]

\* A pending call of the loader ends in this step.
ReadResponseStep ==
    /\ SameLoader
    /\ fw_loader.read_client_ # {}
    /\ fw_loader'.read_client_ = {}

\* C37: a loader has at most one Read call pending, and the offset of a
\* pending call is the size of the image; while the download is in progress
\* the image consists of the full chunks of the requests answered so far, in
\* the order of the requests; at Success it is those chunks followed by one
\* shorter chunk, that of the last request.  A response that ends a call
\* appends its data to the image: a full chunk leaves the download in
\* progress, a shorter one ends it in Success with the timer stopped, and a
\* failed call appends nothing.
C37_ImageInOrder ==
    [][/\ fw_loader'.constructed =>
            /\ Cardinality(fw_loader'.read_client_) <= 1
            /\ \A offset \in fw_loader'.read_client_ : offset = Len(fw_loader'.image_)
            /\ fw_loader'.status_ = "InProgress" =>
                 fw_loader'.image_ =
                    FullChunks(fw_loader'.reads - Cardinality(fw_loader'.read_client_))
            /\ fw_loader'.status_ = "Success" =>
                 /\ fw_loader'.reads > 0
                 /\ Len(fw_loader'.image_) < fw_loader'.reads * DataCapacity
                 /\ SubSeq(fw_loader'.image_, 1, (fw_loader'.reads - 1) * DataCapacity)
                       = FullChunks(fw_loader'.reads - 1)
                 /\ \A k \in (fw_loader'.reads - 1) * DataCapacity + 1
                               .. Len(fw_loader'.image_) :
                      fw_loader'.image_[k] = fw_loader'.reads
       /\ ReadResponseStep =>
            /\ SubSeq(fw_loader'.image_, 1, Len(fw_loader.image_)) = fw_loader.image_
            /\ \/ /\ fw_loader'.status_ = "Failure"
                  /\ fw_loader'.image_ = fw_loader.image_
               \/ /\ fw_loader'.status_ = "Success"
                  /\ Len(fw_loader'.image_) - Len(fw_loader.image_) < DataCapacity
                  /\ ~fw_loader'.timer
               \/ /\ fw_loader'.status_ = "InProgress"
                  /\ Len(fw_loader'.image_) - Len(fw_loader.image_) = DataCapacity
                  /\ fw_loader'.timer
       /\ (SameLoader /\ fw_loader'.image_ # fw_loader.image_) => ReadResponseStep]_vars

\* A download has ended in Success on its third response, the first shorter
\* than a full chunk: the image is two full chunks and one byte of the third.
C37_Witness ==
    /\ fw_loader.constructed
    /\ fw_loader.status_ = "Success"
    /\ fw_loader.read_client_ = {}
    /\ fw_loader.image_ = FullChunks(2) \o << 3 >>

\* C38: a BeginFirmwareUpdate request answered while a loader exists gets
\* ERROR_IN_PROGRESS and leaves the loader and the number of loaders
\* constructed as they are; a loader is constructed only when none exists,
\* in the step that answers a request with ERROR_OK, and with a download in
\* progress; a loader is destroyed only once its status is Success or
\* Failure, and the request that follows is accepted.
C38_OneLoaderAtATime ==
    [][/\ (fw_loader.constructed /\ bfu_resp' # bfu_resp) =>
            /\ bfu_resp' = "ERROR_IN_PROGRESS"
            /\ fw_loader' = fw_loader
            /\ loaders' = loaders
       /\ (~fw_loader.constructed /\ bfu_resp' # bfu_resp) =>
            /\ bfu_resp' = "ERROR_OK"
            /\ fw_loader'.constructed
       /\ loaders' # loaders =>
            /\ ~fw_loader.constructed
            /\ loaders' = loaders + 1
            /\ bfu_resp' = "ERROR_OK"
            /\ fw_loader' = FirmwareLoader(loaders + 1, fw_loader'.source_node_id_)
       /\ (fw_loader'.constructed /\ ~SameLoader) => loaders' = loaders + 1
       /\ (fw_loader.constructed /\ ~fw_loader'.constructed) =>
            /\ fw_loader.status_ \in {"Success", "Failure"}
            /\ node_mode' = MODE_SOFTWARE_UPDATE
            /\ bfu_resp' = bfu_resp]_vars

\* The main loop has destroyed the first loader, the next request has been
\* accepted, and a further request has been rejected while the second
\* loader is downloading.
C38_Witness ==
    /\ fw_loader.constructed
    /\ fw_loader.n = 2
    /\ loaders = 2
    /\ bfu_resp = "ERROR_IN_PROGRESS"
    /\ fw_loader.status_ = "InProgress"
    /\ fw_loader.reads = 1

=============================================================================
